---- MODULE Spec2Model ----
(***************************************************************************)
(* The request admission pipeline of the twig host-monitoring agent:       *)
(* CORS, rate limiter (with warning escalation and background sweep),      *)
(* blacklist (deceiver), version guard, token authenticator and router,    *)
(* together with the rotating token codec they rely on.                    *)
(*                                                                         *)
(* Strings are sequences of one-character strings, so that prefix tests,   *)
(* parsing and formatting are computed the way the code computes them.     *)
(* Instants are integer ticks (TicksPerSec ticks per second); the unix     *)
(* time is BootUnix plus the whole seconds elapsed.                        *)
(***************************************************************************)
EXTENDS Integers, Sequences, FiniteSets, TLC

\* ------------------------------------------------------------------ bounds
\* request handlers that may be in flight at once
NumSlots == 2
\* client socket addresses
NumAddrs == 2
\* clock resolution
TicksPerSec == 2
\* requests accepted by the listener in one behaviour
MaxArrivals == 6
\* number of clock advances in one behaviour
MaxAdvances == 2
\* unix time at which the process starts
BootUnix == 1700000000
\* longest path of the exhaustive version-guard inputs
MaxPathLen == 6
\* ------------------------------------------------------- program constants
MAX_VERSION == 2
U8_MAX == 255
SEED_SIZE == 64
TOKEN_COUNT == 6
EPOCH_SECS == 15
CODE_MODULUS == 1000000
CODE_WIDTH == 6
ROOT_LIMIT == 5
DEFAULT_LIMIT == 3
ROOT_PERIOD_SECS == 1
DEFAULT_PERIOD_SECS == 1
SWEEP_SECS == 10
IDLE_SECS == 300
TRACKER_SECS == 1800
WARN_TOTAL == 3
ROLL_RANGE == 100

\* ------------------------------------------------------------ string tools
\* str::starts_with
StartsWith(s, p) ==
    Len(p) <= Len(s) /\ SubSeq(s, 1, Len(p)) = p

\* what str::strip_prefix yields when the prefix is there
StripPrefix(s, p) ==
    SubSeq(s, Len(p) + 1, Len(s))

\* str::find(char): the 1-based index of the first occurrence, 0 for None
Find(s, c) ==
    IF \E i \in 1..Len(s) : s[i] = c
    THEN CHOOSE i \in 1..Len(s) : s[i] = c /\ \A j \in 1..(i - 1) : s[j] # c
    ELSE 0

DigitChars == <<"0", "1", "2", "3", "4", "5", "6", "7", "8", "9">>

\* char::to_digit(10): -1 when the character is no decimal digit
DigitVal(c) ==
    IF \E d \in 1..10 : DigitChars[d] = c
    THEN (CHOOSE d \in 1..10 : DigitChars[d] = c) - 1
    ELSE -1

\* the digit loop of str::parse::<u8>: checked multiply-and-add, Err on a
\* non-digit and on overflow past u8::MAX
RECURSIVE ParseDigits(_, _)
ParseDigits(s, acc) ==
    IF s = <<>> THEN [ok |-> TRUE, val |-> acc]
    ELSE LET d == DigitVal(Head(s)) IN
         IF d < 0 THEN [ok |-> FALSE, val |-> 0]
         ELSE IF acc * 10 + d > U8_MAX THEN [ok |-> FALSE, val |-> 0]
         ELSE ParseDigits(Tail(s), acc * 10 + d)

\* str::parse::<u8>: Err on the empty string and on a lone sign; one leading
\* "+" is accepted, a leading "-" is an invalid digit for an unsigned type
ParseU8(s) ==
    IF s = <<>> THEN [ok |-> FALSE, val |-> 0]
    ELSE IF Len(s) = 1 /\ Head(s) \in {"+", "-"} THEN [ok |-> FALSE, val |-> 0]
    ELSE IF Head(s) = "+" THEN ParseDigits(Tail(s), 0)
    ELSE ParseDigits(s, 0)

\* ------------------------------------------------------------- whitelist
WHITELISTED_PATHS == { <<"/">> }

\* ------------------------------------------------------------ version guard
\* guard::handler, the admission half: the whitelist, then /v{N}/...
GuardForwards(path) ==
    \/ path \in WHITELISTED_PATHS
    \/ /\ StartsWith(path, <<"/", "v">>)
       /\ LET path_after_v == StripPrefix(path, <<"/", "v">>)
              slash_index == Find(path_after_v, "/")
          IN /\ slash_index > 0
             /\ LET version == ParseU8(SubSeq(path_after_v, 1, slash_index - 1))
                IN version.ok /\ version.val > 0 /\ version.val <= MAX_VERSION

\* a status split with the first threshold moved by one
GuardStatusSkewed(roll) ==
    IF roll < 31 THEN 500
    ELSE IF roll < 50 THEN 503
    ELSE IF roll < 65 THEN 401
    ELSE IF roll < 80 THEN 403
    ELSE IF roll < 90 THEN 400
    ELSE 404

\* guard::handler, the rejection half: the status chosen for a roll in 0..99
GuardStatus(roll) ==
    IF roll < 30 THEN 500
    ELSE IF roll < 50 THEN 503
    ELSE IF roll < 65 THEN 401
    ELSE IF roll < 80 THEN 403
    ELSE IF roll < 90 THEN 400
    ELSE 404

Rolls == 0..(ROLL_RANGE - 1)

\* ---------------------------------------------------------------- blacklist
RESP_418_PATHS ==
    { <<"/","w","p","-","l","o","g","i","n",".","p","h","p">>,
      <<"/","w","p","-","a","d","m","i","n">>,
      <<"/","w","p","-","a","d","m","i","n","/","s","e","t","u","p","-","c","o","n","f","i","g",".","p","h","p">>,
      <<"/","w","o","r","d","p","r","e","s","s","/","w","p","-","a","d","m","i","n","/","s","e","t","u","p","-","c","o","n","f","i","g",".","p","h","p">>,
      <<"/","w","p","-","c","o","n","t","e","n","t","/">>,
      <<"/","w","p","-","i","n","c","l","u","d","e","s","/">>,
      <<"/","w","p","-","j","s","o","n","/">>,
      <<"/","x","m","l","r","p","c",".","p","h","p">>,
      <<"/","w","p","-","c","o","n","f","i","g",".","p","h","p">>,
      <<"/","w","p","-","c","o","n","f","i","g",".","p","h","p",".","b","a","k">>,
      <<"/","w","p","-","c","o","n","f","i","g",".","p","h","p",".","o","l","d">>,
      <<"/","w","p","-","c","o","n","f","i","g",".","p","h","p",".","s","a","v","e">>,
      <<"/","w","p","-","c","o","n","f","i","g","-","s","a","m","p","l","e",".","p","h","p">>,
      <<"/","w","p","-","c","r","o","n",".","p","h","p">>,
      <<"/","w","p","-","m","a","i","l",".","p","h","p">>,
      <<"/","w","p","-","t","r","a","c","k","b","a","c","k",".","p","h","p">>,
      <<"/","r","e","a","d","m","e",".","h","t","m","l">>,
      <<"/","l","i","c","e","n","s","e",".","t","x","t">>,
      <<"/","w","p","-","a","c","t","i","v","a","t","e",".","p","h","p">>,
      <<"/","w","p","-","c","o","m","m","e","n","t","s","-","p","o","s","t",".","p","h","p">>,
      <<"/","w","p","-","l","i","n","k","s","-","o","p","m","l",".","p","h","p">>,
      <<"/","w","p","-","l","o","a","d",".","p","h","p">>,
      <<"/","w","p","-","s","e","t","t","i","n","g","s",".","p","h","p">>,
      <<"/","w","p","-","s","i","g","n","u","p",".","p","h","p">>,
      <<"/","w","p","-","b","l","o","g","-","h","e","a","d","e","r",".","p","h","p">>,
      <<"/","p","l","u","g","i","n","s","/">>,
      <<"/","t","h","e","m","e","s","/">>,
      <<"/","u","p","l","o","a","d","s","/">>,
      <<"/","p","h","p","i","n","f","o",".","p","h","p">>,
      <<"/","p","h","p","m","y","a","d","m","i","n","/">> }

RESP_403_PATHS ==
    { <<"/","a","d","m","i","n">>,
      <<"/","a","d","m","i","n","/">>,
      <<"/","a","d","m","i","n","/","l","o","g","i","n">>,
      <<"/","a","d","m","i","n",".","p","h","p">>,
      <<"/","a","d","m","i","n",".","h","t","m","l">>,
      <<"/","a","d","m","i","n","i","s","t","r","a","t","o","r">>,
      <<"/","a","d","m","i","n","i","s","t","r","a","t","o","r","/">>,
      <<"/","a","d","m","i","n","-","l","o","g","i","n">>,
      <<"/","l","o","g","i","n">>,
      <<"/","l","o","g","o","n">>,
      <<"/","l","o","g","i","n",".","p","h","p">>,
      <<"/","l","o","g","i","n",".","h","t","m","l">>,
      <<"/","r","e","g","i","s","t","e","r">>,
      <<"/","s","i","g","n","u","p">>,
      <<"/","d","a","s","h","b","o","a","r","d">>,
      <<"/",".","e","n","v">>,
      <<"/",".","g","i","t","/","c","o","n","f","i","g">>,
      <<"/",".","g","i","t">>,
      <<"/",".","s","v","n">>,
      <<"/",".","h","t","a","c","c","e","s","s">>,
      <<"/",".","i","d","e","a">>,
      <<"/",".","v","s","c","o","d","e">>,
      <<"/",".","g","i","t","i","g","n","o","r","e">> }

RESP_400_PATHS ==
    { <<"/","c","o","n","f","i","g">>,
      <<"/","c","o","n","f","i","g",".","p","h","p">>,
      <<"/","c","o","n","f">>,
      <<"/","d","a","t","a","b","a","s","e">>,
      <<"/","d","a","t","a","b","a","s","e","_","b","a","c","k","u","p">>,
      <<"/","b","a","c","k","u","p">>,
      <<"/","b","a","c","k","u","p",".","z","i","p">>,
      <<"/","a","p","i">>,
      <<"/","a","p","i","/","l","o","g","i","n">>,
      <<"/","a","p","i","/","v","1">>,
      <<"/","a","p","i","/","v","1","/","l","o","g","i","n">>,
      <<"/","a","p","i","/","u","s","e","r">>,
      <<"/","a","p","i","/","u","s","e","r","s">>,
      <<"/","a","p","i","/","a","d","m","i","n">>,
      <<"/","a","p","i","/","a","u","t","h">>,
      <<"/","r","e","s","t">>,
      <<"/","r","e","s","t","/","l","o","g","i","n">>,
      <<"/","p","r","i","v","a","t","e">>,
      <<"/","s","e","c","u","r","e">>,
      <<"/",".","w","e","l","l","-","k","n","o","w","n","/","s","e","c","u","r","i","t","y",".","t","x","t">>,
      <<"/",".","w","e","l","l","-","k","n","o","w","n","/","c","h","a","n","g","e","-","p","a","s","s","w","o","r","d">>,
      <<"/",".","w","e","l","l","-","k","n","o","w","n","/","a","p","p","l","e","-","a","p","p","-","s","i","t","e","-","a","s","s","o","c","i","a","t","i","o","n">>,
      <<"/","s","e","r","v","e","r","-","s","t","a","t","u","s">>,
      <<"/","s","t","a","t","u","s">>,
      <<"/","s","e","r","v","e","r","-","i","n","f","o">>,
      <<"/","e","r","r","o","r">>,
      <<"/","e","r","r","o","r","s">>,
      <<"/","4","0","3">>,
      <<"/","4","0","4">>,
      <<"/","5","0","0">>,
      <<"/","4","0","1">> }

\* the blacklist with the bad-request class matched by prefix as well
DeceiverStatusLoose(path) ==
    IF path \in WHITELISTED_PATHS THEN 0
    ELSE IF \E p \in RESP_418_PATHS : StartsWith(path, p) THEN 418
    ELSE IF \E p \in RESP_403_PATHS : StartsWith(path, p) THEN 403
    ELSE IF \E p \in RESP_400_PATHS : StartsWith(path, p) THEN 400
    ELSE 0

\* blacklist::handler: 0 forwards, otherwise the status of the rejection
DeceiverStatus(path) ==
    IF path \in WHITELISTED_PATHS THEN 0
    ELSE IF \E p \in RESP_418_PATHS : StartsWith(path, p) THEN 418
    ELSE IF \E p \in RESP_403_PATHS : StartsWith(path, p) THEN 403
    ELSE IF path \in RESP_400_PATHS THEN 400
    ELSE 0

\* ---------------------------------------------------------- response bodies
\* response.rs: the message each fixed error helper puts in the envelope
ErrorMessage(status) ==
    CASE status = 404 -> "Resource not found"
      [] status = 403 -> "Access denied"
      [] status = 418 -> "I'm a teapot"
      [] status = 503 -> "Service unavailable"
      [] status = 401 -> "Unauthorized access"
      [] status = 400 -> "Bad request"
      [] status = 500 -> "Internal server error"
      [] OTHER -> ""

\* an error body that is the message alone
ErrorBodyBare(message, unix) ==
    [message |-> message]

\* response::error: the body PublicErrorResponse serialises to; the
\* timestamp is the time in whole seconds
ErrorBody(message, unix) ==
    [status |-> "Error", message |-> message, timestamp |-> unix]

\* response::success: the body PublicSuccessResponse serialises to
SuccessBody(data, unix) ==
    [status |-> "Success", data |-> data, timestamp |-> unix]

\* a response without a body: `()` as the body, or a response the
\* framework builds itself
EmptyBody == [empty |-> TRUE]

\* -------------------------------------------------------------- token codec
\* i64::to_be_bytes, for values below 2^31 in magnitude (two's complement
\* for the negative ones)
ToBeBytes(n) ==
    LET m == IF n >= 0 THEN n ELSE -(n + 1)
        raw == [i \in 1..8 |-> IF i <= 4 THEN 0
                               ELSE (m \div (256 ^ (8 - i))) % 256]
    IN IF n >= 0 THEN raw ELSE [i \in 1..8 |-> 255 - raw[i]]

\* Stand-in for SHA-256: a deterministic 16-bit mixing of the bytes hashed,
\* sensitive to every byte and to its position, folded as a balanced tree;
\* Sha256Head gives the first four digest bytes.
RECURSIVE Mix(_, _, _, _)
Mix(bytes, lo, hi, k) ==
    IF lo = hi THEN ((bytes[lo] + 1) * (k + lo)) % 65521
    ELSE LET mid == (lo + hi) \div 2
         IN (Mix(bytes, lo, mid, k) * k + Mix(bytes, mid + 1, hi, k) + 1) % 65521

Sha256Head(bytes) ==
    LET h1 == Mix(bytes, 1, Len(bytes), 251)
        h2 == Mix(bytes, 1, Len(bytes), 263)
    IN <<h1 \div 256, h1 % 256, h2 \div 256, h2 % 256>>

\* u32::from_be_bytes(...) % modulus, by Horner's rule so that no
\* intermediate value leaves the 31-bit range
RECURSIVE BeBytesMod(_, _, _, _)
BeBytesMod(bytes, i, acc, modulus) ==
    IF i > Len(bytes) THEN acc
    ELSE BeBytesMod(bytes, i + 1, (acc * 256 + bytes[i]) % modulus, modulus)

\* format!("{:06}", number)
Format06(number) ==
    [i \in 1..CODE_WIDTH |->
        DigitChars[((number \div (10 ^ (CODE_WIDTH - i))) % 10) + 1]]

\* the body of the inner loop of compute_token_windows: the code of seed i
\* (0-based) for one epoch number
TokenCode(buf, i, timestamp) ==
    LET seed == SubSeq(buf, i * SEED_SIZE + 1, (i + 1) * SEED_SIZE)
        hash == Sha256Head(seed \o ToBeBytes(timestamp))
    IN Format06(BeBytesMod(hash, 1, 0, CODE_MODULUS))

\* the six codes of one epoch number
EpochCodes(buf, timestamp) ==
    [i \in 1..TOKEN_COUNT |-> TokenCode(buf, i - 1, timestamp)]

\* Rust's integer division (truncating)
TruncDiv(a, b) ==
    IF a >= 0 THEN a \div b ELSE -((-a) \div b)

\* an epoch number derived with a period one second too long
EpochOfSlow(unix) ==
    TruncDiv(unix, EPOCH_SECS + 1)

\* the epoch number compute_token_windows derives from the unix time
EpochOf(unix) ==
    TruncDiv(unix, EPOCH_SECS)

\* the seed bytes init_token wrote (OsRng output, here a fixed sample)
SeedBytes ==
    [i \in 1..(SEED_SIZE * TOKEN_COUNT) |-> (i * 37 + (i \div 7) * 11 + 5) % 256]

\* generate_seed, TOKEN_COUNT times: the bytes of the n-th draw from OsRng
OsRngBytes(draw) ==
    [i \in 1..(SEED_SIZE * TOKEN_COUNT) |->
        (SeedBytes[i] + 101 * (draw - 1)) % 256]

\* the content of the seed file: the first `size` bytes of the draw that
\* was written to it
FileBytes(file) ==
    SubSeq(OsRngBytes(file.gen), 1, file.size)

\* a test that takes only a complete seed file for an existing one
SeedFileComplete(file) ==
    file.exists /\ file.size = SEED_SIZE * TOKEN_COUNT

\* Path::new(PASSWD_PATH).exists()
SeedFileExists(file) ==
    file.exists

\* File::open(..).expect(..).read_exact(&mut buf).expect(..)
SeedsReadable(file) ==
    file.exists /\ Len(FileBytes(file)) >= SEED_SIZE * TOKEN_COUNT

\* compute_token_windows: panics when the seed file cannot be opened or is
\* short, otherwise the codes of the previous epoch (a) and the current (b)
ComputeTokenWindows(file, unix) ==
    IF ~SeedsReadable(file)
    THEN [panic |-> TRUE, a |-> <<>>, b |-> <<>>]
    ELSE LET buf == SubSeq(FileBytes(file), 1, SEED_SIZE * TOKEN_COUNT)
             now == EpochOf(unix)
         IN [panic |-> FALSE,
             a |-> EpochCodes(buf, now - 1),
             b |-> EpochCodes(buf, now)]

\* ------------------------------------------------------ token authenticator
UpperChars == <<"A","B","C","D","E","F","G","H","I","J","K","L","M",
                "N","O","P","Q","R","S","T","U","V","W","X","Y","Z">>
LowerChars == <<"a","b","c","d","e","f","g","h","i","j","k","l","m",
                "n","o","p","q","r","s","t","u","v","w","x","y","z">>

\* str::to_lowercase
ToLowercase(s) ==
    [i \in 1..Len(s) |->
        IF \E k \in 1..26 : UpperChars[k] = s[i]
        THEN LowerChars[CHOOSE k \in 1..26 : UpperChars[k] = s[i]]
        ELSE s[i]]

StrDevelopment == <<"d","e","v","e","l","o","p","m","e","n","t">>
StrDev == <<"d","e","v">>
StrBearer == <<"B","e","a","r","e","r"," ">>

\* a stage test that compares the configured string as it is
IsDevStageExact(stage) ==
    stage = StrDevelopment \/ stage = StrDev

\* the stage test of token::handler
IsDevStage(stage) ==
    LET lowered == ToLowercase(stage)
    IN lowered = StrDevelopment \/ lowered = StrDev

\* the strings token::handler iterates over and compares the presented
\* token with: the code strings compute_token_windows produced
TokenStrings(tokens) ==
    { tokens.a[i] : i \in 1..Len(tokens.a) } \cup { tokens.b[i] : i \in 1..Len(tokens.b) }

\* token::handler: "forward", "forbidden" or "panic"
TokenOutcome(path, stage, auth, file, unix) ==
    IF path = <<"/">> THEN "forward"
    ELSE IF IsDevStage(stage) THEN "forward"
    ELSE IF ~auth.present THEN "forbidden"
    ELSE IF ~auth.utf8 \/ ~StartsWith(auth.text, StrBearer) THEN "forbidden"
    ELSE LET token == StripPrefix(auth.text, StrBearer)
             tokens == ComputeTokenWindows(file, unix)
         IN IF tokens.panic THEN "panic"
            ELSE IF \E valid \in TokenStrings(tokens) : token = valid
            THEN "forward"
            ELSE "forbidden"

\* ------------------------------------------------------------------- router
P_root == <<"/">>
P_v1_ip == <<"/","v","1","/","i","p">>
\* app_router: the literal routes
LiteralRoutes ==
    { <<"/">>,
      <<"/","v","1","/","i","p">>,
      <<"/","v","2","/","i","p">>,
      <<"/","v","1","/","s","y","s","t","e","m","/","i","n","f","o","r","m","a","t","i","o","n">>,
      <<"/","v","1","/","s","y","s","t","e","m","/","i","p","c","o","n","f","i","g">>,
      <<"/","v","1","/","m","o","n","i","t","o","r","/","c","p","u">>,
      <<"/","v","1","/","m","o","n","i","t","o","r","/","c","p","u","/","p","o","w","e","r">>,
      <<"/","v","1","/","m","o","n","i","t","o","r","/","m","e","m","o","r","y">>,
      <<"/","v","1","/","m","o","n","i","t","o","r","/","s","t","o","r","a","g","e">>,
      <<"/","v","1","/","m","o","n","i","t","o","r","/","n","e","t","w","o","r","k">>,
      <<"/","v","1","/","s","p","e","c","/","r","a","m">>,
      <<"/","v","1","/","c","o","n","t","a","i","n","e","r","s">>,
      <<"/","v","1","/","c","o","n","t","a","i","n","e","r","s","/","v","e","r","s","i","o","n">>,
      <<"/","v","1","/","c","o","n","t","a","i","n","e","r","s","/","d","a","e","m","o","n","/","v","e","r","s","i","o","n">> }

\* app_router: the prefix of the pattern route /v1/containers/info/{id}
ContainerInfoPrefix ==
    <<"/","v","1","/","c","o","n","t","a","i","n","e","r","s","/","i","n","f","o","/">>

\* app_router: a literal route, or the one-segment pattern
\* /v1/containers/info/{id}
RouteMatches(path) ==
    \/ path \in LiteralRoutes
    \/ /\ StartsWith(path, ContainerInfoPrefix)
       /\ Len(path) > Len(ContainerInfoPrefix)
       /\ Find(StripPrefix(path, ContainerInfoPrefix), "/") = 0

\* app_router: a GET route answers, another method on a route is 405, and
\* the fallback handler_404 answers everything else
RouterStatus(method, path) ==
    IF RouteMatches(path)
    THEN (IF method = "GET" THEN 200 ELSE 405)
    ELSE 404

\* --------------------------------------------------------------------- cors
\* the characters str::trim strips (of those the model writes)
WhiteSpace == {" "}

RECURSIVE TrimStart(_)
TrimStart(s) ==
    IF s # <<>> /\ Head(s) \in WhiteSpace THEN TrimStart(Tail(s)) ELSE s

RECURSIVE TrimEnd(_)
TrimEnd(s) ==
    IF s # <<>> /\ s[Len(s)] \in WhiteSpace
    THEN TrimEnd(SubSeq(s, 1, Len(s) - 1))
    ELSE s

\* str::trim
Trim(s) == TrimEnd(TrimStart(s))

\* str::ends_with
EndsWith(s, p) ==
    /\ Len(s) >= Len(p)
    /\ SubSeq(s, Len(s) - Len(p) + 1, Len(s)) = p

StrStar == <<"*">>
StrStarDot == <<"*", ".">>

\* add_cors_headers: the built-in allowlist
CORS_ALLOWLIST ==
    { <<"r","f","s",".","i","m">>,
      <<"*",".","r","f","s",".","i","m">>,
      <<"c","l","o","u","d","f","a","r","o",".","c","o","m">>,
      <<"*",".","c","l","o","u","d","f","a","r","o",".","c","o","m">>,
      <<"*",".","c","a","n","m","i",".","i","c","u">> }

\* add_cors_headers: the fixed header values
ALLOW_METHODS == "GET, POST, PUT, DELETE, OPTIONS"
ALLOW_HEADERS == "Origin, X-Requested-With, Content-Type, Accept, Authorization"

\* a byte outside visible ASCII in a header value
OpaqueByte == "0xFF"

\* a request without an Origin header
NoOrigin == [present |-> FALSE, text |-> <<>>]

\* HeaderValue::to_str: the text of a value of visible ASCII only
ToStrOk(text) == \A i \in DOMAIN text : text[i] # OpaqueByte

\* cors::handler, origin_header: the Origin header as text, none when the
\* header is absent or is not visible ASCII
OriginHeader(origin) ==
    IF origin.present /\ ToStrOk(origin.text)
    THEN [some |-> TRUE, text |-> origin.text]
    ELSE [some |-> FALSE, text |-> <<>>]

\* the allowlist test without the exclusion of the bare suffix
OriginMatchedLoose(origin_str, canopy) ==
    LET allowlist == CORS_ALLOWLIST \cup
                        (IF canopy # StrStar THEN {canopy} ELSE {})
    IN \E allowed \in allowlist :
          IF StartsWith(allowed, StrStarDot)
          THEN EndsWith(origin_str, StripPrefix(allowed, StrStarDot))
          ELSE allowed = origin_str

\* add_cors_headers: the allowlist test; canopy is the trimmed domain
OriginMatched(origin_str, canopy) ==
    LET allowlist == CORS_ALLOWLIST \cup
                        (IF canopy # StrStar THEN {canopy} ELSE {})
    IN \E allowed \in allowlist :
          IF StartsWith(allowed, StrStarDot)
          THEN LET base == StripPrefix(allowed, StrStarDot)
               IN EndsWith(origin_str, base) /\ origin_str # base
          ELSE allowed = origin_str

\* the CORS headers of a response that has none
NoHeaders ==
    [allow_origin |-> [set |-> FALSE, value |-> <<>>],
     allow_methods |-> "", allow_headers |-> ""]

\* add_cors_headers with the fixed headers inserted only next to an
\* Allow-Origin header
AddCorsHeadersNested(headers, origin, domain) ==
    LET canopy == Trim(domain)
        allow == IF origin.some
                 THEN OriginMatched(origin.text, canopy) \/ canopy = StrStar
                 ELSE canopy = StrStar
        value == IF origin.some THEN origin.text ELSE StrStar
    IN IF allow
       THEN [allow_origin |-> [set |-> TRUE, value |-> value],
             allow_methods |-> ALLOW_METHODS,
             allow_headers |-> ALLOW_HEADERS]
       ELSE headers

\* add_cors_headers that takes a wildcard entry for an exact one
AddCorsHeadersExact(headers, origin, domain) ==
    LET canopy == Trim(domain)
        allow == IF origin.some
                 THEN \/ origin.text \in CORS_ALLOWLIST \cup {canopy}
                      \/ canopy = StrStar
                 ELSE canopy = StrStar
        value == IF origin.some THEN origin.text ELSE StrStar
    IN [allow_origin |-> IF allow THEN [set |-> TRUE, value |-> value]
                         ELSE headers.allow_origin,
        allow_methods |-> ALLOW_METHODS,
        allow_headers |-> ALLOW_HEADERS]

\* add_cors_headers; HeaderValue::from_str cannot fail on a text that
\* to_str returned
AddCorsHeaders(headers, origin, domain) ==
    LET canopy == Trim(domain)
        allow == IF origin.some
                 THEN OriginMatched(origin.text, canopy) \/ canopy = StrStar
                 ELSE canopy = StrStar
        value == IF origin.some THEN origin.text ELSE StrStar
    IN [allow_origin |-> IF allow THEN [set |-> TRUE, value |-> value]
                         ELSE headers.allow_origin,
        allow_methods |-> ALLOW_METHODS,
        allow_headers |-> ALLOW_HEADERS]

\* ------------------------------------------------------------- rate limiter
\* PATH_RULES.get(path).unwrap_or(&DEFAULT_RULE), the period in ticks
RuleFor(path) ==
    IF path = P_root
    THEN [period |-> ROOT_PERIOD_SECS * TicksPerSec, limit |-> ROOT_LIMIT]
    ELSE [period |-> DEFAULT_PERIOD_SECS * TicksPerSec, limit |-> DEFAULT_LIMIT]

\* Instant::duration_since: saturates at zero for a later instant
DurationSince(now, t) ==
    IF now >= t THEN now - t ELSE 0

\* the predicate of client_timestamps.retain
StillLive(now, t, period) ==
    DurationSince(now, t) < period

\* client_timestamps.retain(|&t| now.duration_since(t) < rule.period)
Retain(timestamps, now, period) ==
    SelectSeq(timestamps, LAMBDA t : StillLive(now, t, period))

\* a limit test that allows a burst of twice the limit
LimitReachedBurst(len, limit) ==
    len >= 2 * limit

\* a limit test that lets one request too many through
LimitReachedLate(len, limit) ==
    len > limit

\* client_timestamps.len() >= rule.limit as usize
LimitReached(len, limit) ==
    len >= limit

\* tracker.hits.values().sum()
RECURSIVE SumHits(_, _)
SumHits(hits, keys) ==
    IF keys = {} THEN 0
    ELSE LET k == CHOOSE x \in keys : TRUE
         IN hits[k] + SumHits(hits, keys \ {k})

TotalHits(hits) == SumHits(hits, DOMAIN hits)

\* a count that is set to one instead of being incremented
BumpHitsReset(hits, path) ==
    [p \in (DOMAIN hits) \cup {path} |->
        IF p = path THEN 1 ELSE hits[p]]

\* *tracker.hits.entry(path.to_string()).or_insert(0) += 1
BumpHits(hits, path) ==
    [p \in (DOMAIN hits) \cup {path} |->
        IF p \in DOMAIN hits
        THEN (IF p = path THEN hits[p] + 1 ELSE hits[p])
        ELSE 1]

\* a warning threshold one rejection late
WarnReachedLate(total) ==
    total >= WARN_TOTAL + 1

\* total_hits >= 3
WarnReached(total) ==
    total >= WARN_TOTAL

\* a clients pass with the idle time taken in ticks instead of seconds
ClientKeptTicks(timestamps, at) ==
    /\ timestamps # <<>>
    /\ DurationSince(at, timestamps[Len(timestamps)]) < IDLE_SECS * TicksPerSec * TicksPerSec

\* the predicate of clients.retain in the cleanup task
ClientKept(timestamps, at) ==
    /\ timestamps # <<>>
    /\ DurationSince(at, timestamps[Len(timestamps)]) < IDLE_SECS * TicksPerSec

\* the predicate of warn_pool.retain in the cleanup task
TrackerKept(tracker, at) ==
    DurationSince(at, tracker.first_seen) < TRACKER_SECS * TicksPerSec

\* a request that is forwarded without being recorded
PushNothing(timestamps, now) ==
    timestamps

\* client_timestamps.push(now)
Push(timestamps, now) ==
    Append(timestamps, now)

\* a removal that empties the map
WithoutAny(map, key) ==
    <<>>

\* a map without one key
Without(map, key) ==
    [k \in (DOMAIN map) \ {key} |-> map[k]]

\* a map with one key set
With(map, key, value) ==
    [k \in (DOMAIN map) \cup {key} |-> IF k = key THEN value ELSE map[k]]

\* -------------------------------------------------------------------- state
VARIABLES
    clock,      \* the instant, in ticks since the process started
    stage,      \* CONFIG.stage
    canopy_domain, \* CONFIG.canopy_domain
    setup,      \* init_token: [pc, draws, reveals, runs]
    passwd,     \* the seed file: [exists, size, gen]
    CLIENTS,    \* addr -> timestamps of the admitted requests
    WARN_POOL,  \* addr -> [first_seen, hits]
    entryLock,  \* addr -> the slot holding the CLIENTS entry guard, 0 if none
    warnLock,   \* addr -> the task holding the WARN_POOL entry guard, 0 if none
    monitor,    \* the CPU monitor: last_api_call, task_handle, its task, its callers
    iostat,     \* the iostat cache: CACHE, LAST_ACCESS, FETCHING, its task, its callers
    reqs,       \* slot -> the request a handler task is serving
    sweepPc,    \* where the cleanup task is: "sleep", "clients", "warn"
    sweepWake,  \* the instant the cleanup task's sleep ends
    advances,   \* clock advances so far
    arrivals,   \* requests accepted so far
    observe,    \* which of the history variables below are recorded
    hist,       \* history: addr -> the limiter's decisions for the client
    tally,      \* history: addr -> rejections, warnings, hits swept away
    answered    \* history: responses written so far

vars == <<clock, stage, canopy_domain, setup, passwd, CLIENTS, WARN_POOL,
          entryLock, warnLock, monitor, iostat, reqs, sweepPc, sweepWake,
          advances, arrivals, observe, hist, tally, answered>>

Slots == 1..NumSlots
Addrs == 1..NumAddrs

\* Utc::now().timestamp()
UnixNow == BootUnix + (clock \div TicksPerSec)

NoAuth == [present |-> FALSE, utf8 |-> TRUE, text |-> <<>>]

IdleReq ==
    [pc |-> "idle", addr |-> 1, method |-> "GET", path |-> P_root,
     auth |-> NoAuth, origin |-> NoOrigin, now |-> 0, rl |-> "",
     status |-> 0, msg |-> "", headers |-> NoHeaders,
     by |-> "", cors |-> FALSE, trace |-> <<>>, logs |-> <<>>,
     body |-> EmptyBody]

\* the longest period of any rule, in ticks
MaxPeriod ==
    IF ROOT_PERIOD_SECS >= DEFAULT_PERIOD_SECS
    THEN ROOT_PERIOD_SECS * TicksPerSec
    ELSE DEFAULT_PERIOD_SECS * TicksPerSec

Range(s) == { s[i] : i \in DOMAIN s }

Max(a, b) == IF a >= b THEN a ELSE b

Min(a, b) == IF a <= b THEN a ELSE b

RECURSIVE SeqMin(_, _, _)
SeqMin(s, i, m) ==
    IF i > Len(s) THEN m ELSE SeqMin(s, i + 1, Min(m, s[i]))

\* history: no decision yet
NoEvent ==
    [kind |-> "none", now |-> 0, period |-> 0, limit |-> 0, n |-> 0,
     oldest |-> 0,
     admitted |-> FALSE, inorder |-> FALSE, live |-> 0, path |-> <<>>]

NoHist ==
    [adm |-> <<>>, byPath |-> <<>>, last |-> 0, d |-> NoEvent]

NoTally ==
    [rejected |-> 0, warned |-> 0, swept |-> 0]

\* init_token has returned
SetupDone == [pc |-> "done", draws |-> 1, reveals |-> 0, runs |-> 1]

GoodFile == [exists |-> TRUE, size |-> SEED_SIZE * TOKEN_COUNT, gen |-> 1]
ShortFile == [exists |-> TRUE, size |-> SEED_SIZE * TOKEN_COUNT - 1, gen |-> 1]
MissingFile == [exists |-> FALSE, size |-> 0, gen |-> 0]

StrProduction == <<"p","r","o","d","u","c","t","i","o","n">>

\* DateTime::<Utc>::default(): stands for the unix epoch, BootUnix seconds
\* before the clock starts
DefaultInstant == 0 - 1

\* CpuMonitor::new: no task handle, last_api_call at its default; the
\* update tasks spawned so far, and the calls of get_data under way
MonitorNew ==
    [last_api_call |-> DefaultInstant,
     task_handle |-> 0,
     tasks |-> <<>>,
     calls |-> [c \in Slots |-> [pc |-> "idle", spawned |-> 0]],
     called |-> 0,
     returned |-> 0]

\* the statics of the iostat pipeline when first touched; the fetch tasks
\* spawned so far, and the calls of fetch_iostat under way
IostatNew ==
    [CACHE |-> "None",
     LAST_ACCESS |-> 0,
     FETCHING |-> FALSE,
     fetchLock |-> 0,
     tasks |-> <<>>,
     calls |-> [c \in Slots |-> "idle"],
     called |-> 0]

\* the state main() leaves behind, but for the requests and their windows
BootedAs(stages, domains, files, observed) ==
    /\ clock = 0
    /\ stage \in stages
    /\ canopy_domain \in domains
    /\ setup = SetupDone
    /\ passwd \in files
    /\ WARN_POOL = <<>>
    /\ entryLock = [a \in Addrs |-> 0]
    /\ warnLock = [a \in Addrs |-> 0]
    /\ monitor = MonitorNew
    /\ iostat = IostatNew
    /\ sweepPc = "sleep"
    /\ sweepWake = SWEEP_SECS * TicksPerSec
    /\ advances = 0
    /\ arrivals = 0
    /\ observe = observed
    /\ hist = [a \in Addrs |-> NoHist]
    /\ tally = [a \in Addrs |-> NoTally]
    /\ answered = 0

\* the same with every origin allowed
Booted(stages, files, observed) ==
    BootedAs(stages, {StrStar}, files, observed)

\* the state after start-up: no request yet
InitWith(stages, files, observed) ==
    /\ Booted(stages, files, observed)
    /\ CLIENTS = <<>>
    /\ reqs = [r \in Slots |-> IdleReq]

\* ------------------------------------------------------------------ actions
\* the listener hands a request to a handler task (the tasks are
\* interchangeable: the lowest free slot takes it)
Arrive(r, requests, most) ==
    /\ reqs[r].pc = "idle"
    /\ \A s \in Slots : s < r => reqs[s].pc # "idle"
    /\ arrivals < most
    /\ \E q \in requests :
          reqs' = [reqs EXCEPT ![r] =
                     [IdleReq EXCEPT !.pc = "cors", !.addr = q.addr,
                                     !.method = q.method, !.path = q.path,
                                     !.auth = q.auth,
                                     !.origin = q.origin]]
    /\ arrivals' = arrivals + 1
    /\ UNCHANGED <<clock, stage, canopy_domain, setup, passwd, CLIENTS,
                   WARN_POOL, entryLock, sweepPc, sweepWake, advances,
                   observe, hist, tally, answered,
                   warnLock, monitor, iostat>>

\* a preflight test that takes the method in lower case
IsPreflightLower(method) ==
    method = "options"

\* req.method() == Method::OPTIONS
IsPreflight(method) ==
    method = "OPTIONS"

\* cors::handler before next.run: an OPTIONS preflight is answered here
CorsIn(r) ==
    /\ reqs[r].pc = "cors"
    /\ reqs' = [reqs EXCEPT ![r] =
                  IF IsPreflight(reqs[r].method)
                  THEN [@ EXCEPT !.pc = "done", !.status = 200, !.by = "cors",
                                 !.headers =
                                    AddCorsHeaders(NoHeaders,
                                                   OriginHeader(reqs[r].origin),
                                                   canopy_domain),
                                 !.cors = TRUE, !.trace = Append(@, "cors")]
                  ELSE [@ EXCEPT !.pc = "rate", !.trace = Append(@, "cors")]]
    /\ UNCHANGED <<clock, stage, canopy_domain, setup, passwd, CLIENTS,
                   WARN_POOL, entryLock, sweepPc, sweepWake, advances,
                   arrivals, observe, hist, tally, answered,
                   warnLock, monitor, iostat>>

\* rate_limiting::handler, lines 72-74: the path, its rule, Instant::now()
RlBegin(r) ==
    /\ reqs[r].pc = "rate"
    /\ reqs' = [reqs EXCEPT ![r] =
                  [@ EXCEPT !.pc = "rl_entry", !.now = clock,
                            !.trace = Append(@, "rate")]]
    /\ UNCHANGED <<clock, stage, canopy_domain, setup, passwd, CLIENTS,
                   WARN_POOL, entryLock, sweepPc, sweepWake, advances,
                   arrivals, observe, hist, tally, answered,
                   warnLock, monitor, iostat>>

\* Addrs stands for socket addresses: the ports of one IP address, then
\* those of the next
PortsPerIp == 2
IpOf(a) == (a + PortsPerIp - 1) \div PortsPerIp
PortOf(a) == a - (IpOf(a) - 1) * PortsPerIp

\* a key that leaves out the port: the first socket address of the IP
KeyIp(addr) ==
    CHOOSE b \in Addrs :
       /\ IpOf(b) = IpOf(addr)
       /\ \A c \in Addrs : IpOf(c) = IpOf(addr) => b <= c

\* the key of CLIENTS and WARN_POOL: the SocketAddr of ConnectInfo, whole
KeyOf(addr) ==
    addr

\* an entry that is never locked
EntryNeverLocked(a) ==
    TRUE

\* the guard of CLIENTS.entry(addr): the entry is not locked by another task
EntryFree(a) ==
    entryLock[a] = 0

\* rate_limiting::handler, lines 75-76: take the entry guard (inserting an
\* empty Vec), then prune
RlEntry(r) ==
    LET q == reqs[r]
        rule == RuleFor(q.path)
        old == IF KeyOf(q.addr) \in DOMAIN CLIENTS THEN CLIENTS[KeyOf(q.addr)] ELSE <<>>
    IN /\ q.pc = "rl_entry"
       /\ EntryFree(KeyOf(q.addr))
       /\ entryLock' = [entryLock EXCEPT ![KeyOf(q.addr)] = r]
       /\ CLIENTS' = With(CLIENTS, KeyOf(q.addr), Retain(old, q.now, rule.period))
       /\ reqs' = [reqs EXCEPT ![r].pc = "rl_check"]
       /\ UNCHANGED <<clock, stage, canopy_domain, setup, passwd, WARN_POOL,
                      sweepPc, sweepWake, advances, arrivals, observe, hist,
                      tally, answered,
                      warnLock, monitor, iostat>>

\* history: the decision just taken, set against the admitted requests on
\* record (those older than every period are forgotten)
Decided(h, q, rule, before, admitted) ==
    LET last == Max(h.last, q.now)
        adm == IF admitted THEN Append(h.adm, q.now) ELSE h.adm
        byPath == IF admitted /\ "paths" \in observe
                  THEN Append(h.byPath, <<q.now, q.path>>)
                  ELSE h.byPath
    IN [adm |-> SelectSeq(adm, LAMBDA t : last - t < MaxPeriod),
        byPath |-> SelectSeq(byPath, LAMBDA e : last - e[1] < MaxPeriod),
        last |-> last,
        d |-> [kind |-> "decide", now |-> q.now, period |-> rule.period,
               limit |-> rule.limit,
               n |-> Len(before), oldest |-> SeqMin(before, 1, q.now),
               admitted |-> admitted, inorder |-> q.now >= h.last,
               path |-> IF "paths" \in observe THEN q.path ELSE <<>>,
               live |-> Len(SelectSeq(h.adm,
                          LAMBDA t : DurationSince(q.now, t) < rule.period))]]

\* rate_limiting::handler, line 79: the limit test
RlCheck(r) ==
    LET q == reqs[r]
        rule == RuleFor(q.path)
        before == CLIENTS[KeyOf(q.addr)]
        reached == LimitReached(Len(before), rule.limit)
    IN /\ q.pc = "rl_check"
       /\ reqs' = [reqs EXCEPT ![r] =
                     [@ EXCEPT !.pc = IF reached THEN "rl_reject" ELSE "rl_push",
                               !.rl = IF reached THEN "reject" ELSE "admit"]]
       /\ hist' = IF "hist" \in observe
                  THEN [hist EXCEPT ![q.addr] =
                          Decided(@, q, rule, before, ~reached)]
                  ELSE hist
       /\ UNCHANGED <<clock, stage, canopy_domain, setup, passwd, CLIENTS,
                      WARN_POOL, entryLock, sweepPc, sweepWake, advances,
                      arrivals, observe, tally, answered,
                      warnLock, monitor, iostat>>

\* a call of log::log by the stage: the level, the stage, the reason the
\* message states and the value formatted into it
LogCall(level, by, reason, value) ==
    [level |-> level, by |-> by, reason |-> reason, value |-> value]

\* rate_limiting::handler, lines 102-104: one line for each path of the
\* tracker, in the order the HashMap yields them
RECURSIVE HitsLogs(_, _)
HitsLogs(hits, keys) ==
    IF keys = {} THEN <<>>
    ELSE LET k == CHOOSE x \in keys : TRUE
         IN <<LogCall("Warn", "rate", "hits", k)>> \o
            HitsLogs(hits, keys \ {k})

\* rate_limiting::handler, lines 80-104: the calls of log::log of a
\* rejection: the limit hit, and on a warning the total and each path
RejectLogs(path, hits, warn) ==
    <<LogCall("Debug", "rate", "hit limit", path)>> \o
    (IF warn
     THEN <<LogCall("Warn", "rate", "triggered rate limit warning", <<>>)>> \o
          HitsLogs(hits, DOMAIN hits)
     ELSE <<>>)

\* rate_limiting::handler, lines 80-112: the warning tracker, then 429; the
\* entry guard is dropped on return
RlReject(r) ==
    LET q == reqs[r]
        tracker == IF KeyOf(q.addr) \in DOMAIN WARN_POOL THEN WARN_POOL[KeyOf(q.addr)]
                   ELSE [first_seen |-> clock, hits |-> <<>>]
        hits == BumpHits(tracker.hits, q.path)
        total_hits == TotalHits(hits)
        warn == WarnReached(total_hits)
    IN /\ q.pc = "rl_reject"
       /\ WARN_POOL' = IF warn THEN Without(WARN_POOL, KeyOf(q.addr))
                       ELSE With(WARN_POOL, KeyOf(q.addr), [tracker EXCEPT !.hits = hits])
       /\ tally' = IF "tally" \in observe
                   THEN [tally EXCEPT ![q.addr] =
                           [@ EXCEPT !.rejected = @ + 1,
                                     !.warned = IF warn THEN @ + 1 ELSE @]]
                   ELSE tally
       /\ entryLock' = [entryLock EXCEPT ![KeyOf(q.addr)] = IF @ = r THEN 0 ELSE @]
       /\ reqs' = [reqs EXCEPT ![r] =
                     [@ EXCEPT !.pc = "cors_out", !.status = 429,
                               !.msg = "Rate limit exceeded.",
                               !.body = ErrorBody("Rate limit exceeded.",
                                                  UnixNow),
                               !.by = "rate",
                               !.logs = @ \o RejectLogs(q.path, hits, warn)]]
       /\ UNCHANGED <<clock, stage, canopy_domain, setup, passwd, CLIENTS,
                      sweepPc, sweepWake, advances, arrivals, observe, hist,
                      answered,
                      warnLock, monitor, iostat>>

\* rate_limiting::handler, lines 115-117: record the request, drop the
\* guard, call the next stage
RlPush(r) ==
    LET q == reqs[r]
    IN /\ q.pc = "rl_push"
       /\ CLIENTS' = With(CLIENTS, KeyOf(q.addr),
                          Push(IF KeyOf(q.addr) \in DOMAIN CLIENTS
                               THEN CLIENTS[KeyOf(q.addr)] ELSE <<>>, q.now))
       /\ entryLock' = [entryLock EXCEPT ![KeyOf(q.addr)] = IF @ = r THEN 0 ELSE @]
       /\ reqs' = [reqs EXCEPT ![r].pc = "deceiver"]
       /\ UNCHANGED <<clock, stage, canopy_domain, setup, passwd, WARN_POOL,
                      sweepPc, sweepWake, advances, arrivals, observe, hist,
                      tally, answered,
                      warnLock, monitor, iostat>>

\* blacklist::handler; gen_bool(0.1) picks the plain message or a taunt
Deceiver(r) ==
    LET q == reqs[r]
        status == DeceiverStatus(q.path)
    IN /\ q.pc = "deceiver"
       /\ IF status = 0
          THEN reqs' = [reqs EXCEPT ![r] =
                          [@ EXCEPT !.pc = "guard", !.trace = Append(@, "deceiver")]]
          ELSE \E plain \in (IF status = 400 THEN {TRUE} ELSE BOOLEAN) :
                  reqs' = [reqs EXCEPT ![r] =
                     [@ EXCEPT !.pc = "cors_out", !.status = status,
                               !.msg = IF plain THEN ErrorMessage(status)
                                       ELSE "taunt",
                               !.body = ErrorBody(IF plain
                                                  THEN ErrorMessage(status)
                                                  ELSE "taunt", UnixNow),
                               !.by = "deceiver",
                               !.trace = Append(@, "deceiver")]]
       /\ UNCHANGED <<clock, stage, canopy_domain, setup, passwd, CLIENTS,
                      WARN_POOL, entryLock, sweepPc, sweepWake, advances,
                      arrivals, observe, hist, tally, answered,
                      warnLock, monitor, iostat>>

\* guard::handler
Guard(r) ==
    LET q == reqs[r]
    IN /\ q.pc = "guard"
       /\ IF GuardForwards(q.path)
          THEN reqs' = [reqs EXCEPT ![r] =
                          [@ EXCEPT !.pc = "token", !.trace = Append(@, "guard")]]
          ELSE \E roll \in Rolls :
                  reqs' = [reqs EXCEPT ![r] =
                     [@ EXCEPT !.pc = "cors_out", !.status = GuardStatus(roll),
                               !.msg = ErrorMessage(GuardStatus(roll)),
                               !.body = ErrorBody(ErrorMessage(GuardStatus(roll)),
                                                  UnixNow),
                               !.by = "guard", !.trace = Append(@, "guard")]]
       /\ UNCHANGED <<clock, stage, canopy_domain, setup, passwd, CLIENTS,
                      WARN_POOL, entryLock, sweepPc, sweepWake, advances,
                      arrivals, observe, hist, tally, answered,
                      warnLock, monitor, iostat>>

\* the `{:?}` of header_str: the header's text, None for a value that is
\* not a string
HeaderDebug(auth) ==
    IF auth.utf8 THEN auth.text ELSE <<"N","o","n","e">>

\* token::handler: the calls of log::log on the way to the outcome
TokenLogs(path, stage_, auth, outcome) ==
    IF path = <<"/">> THEN <<>>
    ELSE IF IsDevStage(stage_)
    THEN <<LogCall("Debug", "token", "skip auth", <<>>)>>
    ELSE IF ~auth.present
    THEN <<LogCall("Debug", "token", "no authorization header", <<>>)>>
    ELSE IF ~auth.utf8 \/ ~StartsWith(auth.text, StrBearer)
    THEN <<LogCall("Debug", "token", "invalid header format",
                   HeaderDebug(auth))>>
    ELSE IF outcome = "forbidden"
    THEN <<LogCall("Debug", "token", "token mismatch",
                   StripPrefix(auth.text, StrBearer))>>
    ELSE <<>>

\* token::handler; a panic in compute_token_windows unwinds the handler
\* task, which then produces no response
Token(r) ==
    LET q == reqs[r]
        outcome == TokenOutcome(q.path, stage, q.auth, passwd, UnixNow)
        logs == TokenLogs(q.path, stage, q.auth, outcome)
    IN /\ q.pc = "token"
       /\ reqs' = [reqs EXCEPT ![r] =
             CASE outcome = "forward" ->
                    [@ EXCEPT !.pc = "router", !.trace = Append(@, "token"),
                              !.logs = @ \o logs]
               [] outcome = "forbidden" ->
                    [@ EXCEPT !.pc = "cors_out", !.status = 403,
                              !.msg = ErrorMessage(403), !.by = "token",
                              !.body = ErrorBody(ErrorMessage(403), UnixNow),
                              !.trace = Append(@, "token"),
                              !.logs = @ \o logs]
               [] OTHER ->
                    [@ EXCEPT !.pc = "panic", !.by = "token",
                              !.trace = Append(@, "token")]]
       /\ UNCHANGED <<clock, stage, canopy_domain, setup, passwd, CLIENTS,
                      WARN_POOL, entryLock, sweepPc, sweepWake, advances,
                      arrivals, observe, hist, tally, answered,
                      warnLock, monitor, iostat>>

\* app_router: the handlers of the routes answer through
\* response::success, the fallback through response::not_found, and the
\* 405 of a route without the method is the framework's, with no body
RouterBody(status, unix) ==
    CASE status = 200 -> SuccessBody("data", unix)
      [] status = 404 -> ErrorBody(ErrorMessage(404), unix)
      [] OTHER -> EmptyBody

\* the application router and its fallback
Router(r) ==
    LET q == reqs[r]
        status == RouterStatus(q.method, q.path)
    IN /\ q.pc = "router"
       /\ reqs' = [reqs EXCEPT ![r] =
                     [@ EXCEPT !.pc = "cors_out", !.status = status,
                               !.msg = IF status = 200 THEN "data"
                                       ELSE ErrorMessage(status),
                               !.body = RouterBody(status, UnixNow),
                               !.by = "router",
                               !.trace = Append(@, "router")]]
       /\ UNCHANGED <<clock, stage, canopy_domain, setup, passwd, CLIENTS,
                      WARN_POOL, entryLock, sweepPc, sweepWake, advances,
                      arrivals, observe, hist, tally, answered,
                      warnLock, monitor, iostat>>

\* cors::handler after next.run: the headers are added to whatever came back
CorsOut(r) ==
    /\ reqs[r].pc = "cors_out"
    /\ reqs' = [reqs EXCEPT ![r] =
                  [@ EXCEPT !.pc = "done",
                            !.headers =
                               AddCorsHeaders(@, OriginHeader(reqs[r].origin),
                                              canopy_domain),
                            !.cors = TRUE]]
    /\ UNCHANGED <<clock, stage, canopy_domain, setup, passwd, CLIENTS,
                   WARN_POOL, entryLock, sweepPc, sweepWake, advances,
                   arrivals, observe, hist, tally, answered,
                   warnLock, monitor, iostat>>

\* the response is written to the connection and the handler task ends
Respond(r) ==
    /\ reqs[r].pc = "done"
    /\ reqs' = [reqs EXCEPT ![r] = IdleReq]
    /\ answered' = IF "answers" \in observe THEN answered + 1 ELSE answered
    /\ UNCHANGED <<clock, stage, canopy_domain, setup, passwd, CLIENTS,
                   WARN_POOL, entryLock, sweepPc, sweepWake, advances,
                   arrivals, observe, hist, tally,
                   warnLock, monitor, iostat>>

\* the runtime catches the panic of a handler task: the connection is closed
\* without a response and the task ends
Unwind(r) ==
    /\ reqs[r].pc = "panic"
    /\ reqs' = [reqs EXCEPT ![r] = IdleReq]
    /\ UNCHANGED <<clock, stage, canopy_domain, setup, passwd, CLIENTS,
                   WARN_POOL, entryLock, sweepPc, sweepWake, advances,
                   arrivals, observe, hist, tally, answered,
                   warnLock, monitor, iostat>>

\* time passes
Advance(steps) ==
    /\ advances < MaxAdvances
    /\ \E d \in steps : clock' = clock + d
    /\ advances' = advances + 1
    /\ UNCHANGED <<stage, canopy_domain, setup, passwd, CLIENTS, WARN_POOL,
                   entryLock, reqs, sweepPc, sweepWake, arrivals, observe,
                   hist, tally, answered,
                   warnLock, monitor, iostat>>

\* no request is in flight
Quiet == \A r \in Slots : reqs[r].pc = "idle"

\* a quiet spell: time passes while no request is in flight
Spell(steps) ==
    /\ Quiet
    /\ Advance(steps)

\* the cleanup task: time::sleep(10 s) returns
SweepWake ==
    /\ sweepPc = "sleep"
    /\ clock >= sweepWake
    /\ sweepPc' = "clients"
    /\ UNCHANGED <<clock, stage, canopy_domain, setup, passwd, CLIENTS,
                   WARN_POOL, entryLock, reqs, sweepWake, advances, arrivals,
                   observe, hist, tally, answered,
                   warnLock, monitor, iostat>>

\* the cleanup task: clients.retain(..), which waits for the entry guards
SweepClients ==
    LET kept == { a \in DOMAIN CLIENTS : ClientKept(CLIENTS[a], clock) }
    IN /\ sweepPc = "clients"
       /\ \A a \in Addrs : EntryFree(a)
       /\ CLIENTS' = [a \in kept |-> CLIENTS[a]]
       /\ sweepPc' = "warn"
       /\ UNCHANGED <<clock, stage, canopy_domain, setup, passwd, WARN_POOL,
                      entryLock, reqs, sweepWake, advances, arrivals,
                      observe, hist, tally, answered,
                      warnLock, monitor, iostat>>

\* the cleanup task: warn_pool.retain(..), then back to sleep
SweepWarn ==
    LET kept == { a \in DOMAIN WARN_POOL : TrackerKept(WARN_POOL[a], clock) }
    IN /\ sweepPc = "warn"
       /\ WARN_POOL' = [a \in kept |-> WARN_POOL[a]]
       /\ tally' = IF "tally" \in observe
                   THEN [a \in Addrs |->
                           IF a \in (DOMAIN WARN_POOL) \ kept
                           THEN [tally[a] EXCEPT !.swept =
                                   @ + TotalHits(WARN_POOL[a].hits)]
                           ELSE tally[a]]
                   ELSE tally
       /\ sweepPc' = "sleep"
       /\ sweepWake' = clock + SWEEP_SECS * TicksPerSec
       /\ UNCHANGED <<clock, stage, canopy_domain, setup, passwd, CLIENTS,
                      entryLock, reqs, advances, arrivals, observe, hist,
                      answered,
                      warnLock, monitor, iostat>>

\* ------------------------------------------------------------- scheduling
\* The steps of a handler outside the rate limiter's critical section read
\* and write nothing but the request they serve (and configuration that
\* does not change), so they commute with every step of another task; a
\* request whose clock is not yet read is indistinguishable from one that
\* arrives later.  The specifications let such a step run before anything
\* else is scheduled, which leaves out only interleavings equivalent to the
\* ones explored.
LocalPcs == {"cors", "rate", "deceiver", "guard", "token", "router",
             "cors_out", "done", "panic"}

Settled == \A r \in Slots : reqs[r].pc \notin LocalPcs

\* ------------------------------------------------ rate limiter specification
P_v2_ip == <<"/","v","2","/","i","p">>

\* unauthenticated GET requests
Gets(addrs, paths) ==
    [addr : addrs, method : {"GET"}, path : paths, auth : {NoAuth},
     origin : {NoOrigin}]

\* the first client asks for paths under both rules, the others for one
RateRequests == Gets({1}, {P_root, P_v1_ip}) \cup Gets(Addrs \ {1}, {P_v1_ip})
RateSteps == {1}

InitRate == InitWith({StrProduction}, {GoodFile}, {"hist"})

NextRate ==
    \/ \E r \in Slots :
          Settled /\ Arrive(r, RateRequests, MaxArrivals)
    \/ \E r \in Slots : CorsIn(r)
    \/ \E r \in Slots : RlBegin(r)
    \/ \E r \in Slots : Settled /\ RlEntry(r)
    \/ \E r \in Slots : Settled /\ RlCheck(r)
    \/ \E r \in Slots : Settled /\ RlReject(r)
    \/ \E r \in Slots : Settled /\ RlPush(r)
    \/ \E r \in Slots : Deceiver(r)
    \/ \E r \in Slots : Guard(r)
    \/ \E r \in Slots : Token(r)
    \/ \E r \in Slots : Router(r)
    \/ \E r \in Slots : CorsOut(r)
    \/ \E r \in Slots : Respond(r)
    \/ Settled /\ Advance(RateSteps)

SpecRate == InitRate /\ [][NextRate]_vars

\* C1: a request whose clock reading is not older than the client's earlier
\* decisions is admitted exactly when fewer than `limit` requests of the
\* client were admitted less than `period` before it; a rejected request is
\* answered 429 by the rate limiter and reaches no later stage.
C1_RateLimit ==
    /\ \A a \in Addrs :
          LET d == hist[a].d
          IN (d.kind = "decide" /\ d.inorder) =>
                (d.admitted <=> d.live < d.limit)
    /\ \A r \in Slots :
          reqs[r].rl = "reject" =>
             /\ reqs[r].pc \in {"rl_reject", "cors_out", "done"}
             /\ "deceiver" \notin Range(reqs[r].trace)
             /\ reqs[r].pc # "rl_reject" =>
                   reqs[r].status = 429 /\ reqs[r].by = "rate"

\* C1 witness: a client that was rejected earlier (its tracker exists) is
\* admitted once the period has elapsed since the admitted requests, the
\* pruned window being empty
C1_Witness ==
    \E a \in Addrs :
       /\ a \in DOMAIN WARN_POOL
       /\ hist[a].d.kind = "decide"
       /\ hist[a].d.inorder
       /\ hist[a].d.admitted
       /\ hist[a].d.now >= MaxPeriod
       /\ hist[a].d.n = 0

\* C2 (no torn window): a task between taking the entry and returning holds
\* the entry guard alone
EntryHeld ==
    \A r \in Slots :
       reqs[r].pc \in {"rl_check", "rl_reject", "rl_push"} =>
          entryLock[reqs[r].addr] = r

\* C2 (race): when a decision finds limit-1 timestamps and the next decision
\* for the same client and limit finds all of them and the first request's
\* own still live, the first is admitted and the second is rejected, having
\* seen the window the first left behind
RaceStep ==
    \A a \in Addrs :
       LET d1 == hist[a].d
           d2 == hist'[a].d
       IN (/\ hist'[a] # hist[a]
           /\ d1.kind = "decide"
           /\ d2.kind = "decide"
           /\ d1.limit = d2.limit
           /\ d1.n = d1.limit - 1
           /\ DurationSince(d2.now, d1.oldest) < d2.period
           /\ DurationSince(d2.now, d1.now) < d2.period)
          => (d1.admitted /\ ~d2.admitted /\ d2.n = d1.limit)

\* C2: the prune-check-append sequence of a client is atomic: the entry is
\* held by one task at a time, and of two requests racing for the last place
\* in the window exactly one is admitted
C2_Atomic ==
    []EntryHeld /\ [][RaceStep]_vars

\* C2 witness: a request is rejected on finding the window full, the last
\* place having gone to a request that read the same instant
C2_Witness ==
    \E r \in Slots :
       LET q == reqs[r]
           w == CLIENTS[q.addr]
       IN /\ q.pc = "rl_reject"
          /\ hist[q.addr].d.n = RuleFor(q.path).limit
          /\ Len(w) = RuleFor(q.path).limit
          /\ w[Len(w)] = q.now

\* --------------------------------------------- warning tracker specification
WarnArrivals == MaxArrivals + 1
\* the first client is rejected on two paths, the others keep to the root
WarnRequests == Gets({1}, {P_v1_ip, P_v2_ip}) \cup Gets(Addrs \ {1}, {P_root})
WarnSpells == {IDLE_SECS * TicksPerSec, TRACKER_SECS * TicksPerSec}

InitWarn == InitWith({StrProduction}, {GoodFile}, {"tally"})

NextWarn ==
    \/ \E r \in Slots :
          Settled /\ Arrive(r, WarnRequests, WarnArrivals)
    \/ \E r \in Slots : CorsIn(r)
    \/ \E r \in Slots : RlBegin(r)
    \/ \E r \in Slots : Settled /\ RlEntry(r)
    \/ \E r \in Slots : Settled /\ RlCheck(r)
    \/ \E r \in Slots : Settled /\ RlReject(r)
    \/ \E r \in Slots : Settled /\ RlPush(r)
    \/ \E r \in Slots : Deceiver(r)
    \/ \E r \in Slots : Guard(r)
    \/ \E r \in Slots : Token(r)
    \/ \E r \in Slots : Router(r)
    \/ \E r \in Slots : CorsOut(r)
    \/ \E r \in Slots : Respond(r)
    \/ Spell(WarnSpells)
    \/ Settled /\ SweepWake
    \/ Settled /\ SweepClients
    \/ Settled /\ SweepWarn

SpecWarn == InitWarn /\ [][NextWarn]_vars

\* the hits a client's tracker holds, none without a tracker
HitsOf(pool, a) ==
    IF a \in DOMAIN pool THEN pool[a].hits ELSE <<>>

HitsAt(hits, path) ==
    IF path \in DOMAIN hits THEN hits[path] ELSE 0

\* C8 (accounting): every rejection of a client is in a warning (three to
\* each), in the client's tracker, or in a tracker the sweep evicted; a
\* stored tracker counts one or two; without eviction n rejections have
\* produced floor(n/3) warnings
WarnAccount ==
    \A a \in Addrs :
       LET held == TotalHits(HitsOf(WARN_POOL, a))
       IN /\ tally[a].rejected = 3 * tally[a].warned + held + tally[a].swept
          /\ a \in DOMAIN WARN_POOL => held \in {1, 2}
          /\ tally[a].swept = 0 => tally[a].warned = tally[a].rejected \div 3

\* C8 (step): a rejection adds one to hits[path] and leaves the other paths'
\* hits alone, unless it is the third held, which emits one warning and
\* removes the tracker; nothing else emits a warning
RejectStep ==
    \A a \in Addrs :
       LET old == HitsOf(WARN_POOL, a)
           new == HitsOf(WARN_POOL', a)
       IN /\ \A r \in Slots :
               (reqs[r].addr = a /\ reqs[r].pc = "rl_reject"
                                /\ reqs'[r].pc # "rl_reject") =>
                  IF TotalHits(old) = 2
                  THEN /\ a \notin DOMAIN WARN_POOL'
                       /\ tally'[a].warned = tally[a].warned + 1
                  ELSE /\ a \in DOMAIN WARN_POOL'
                       /\ tally'[a].warned = tally[a].warned
                       /\ \A p \in (DOMAIN old) \cup (DOMAIN new) :
                             HitsAt(new, p) =
                                HitsAt(old, p) +
                                   (IF p = reqs[r].path THEN 1 ELSE 0)
          /\ tally'[a].warned # tally[a].warned =>
                \E r \in Slots : reqs[r].addr = a /\ reqs[r].pc = "rl_reject"

\* C8: warning escalation: each rejection counts once against its path, the
\* third rejection held by a client's tracker (over any paths) emits exactly
\* one warning and removes the tracker, the next one starts a fresh tracker
\* at 1, and without sweep eviction n rejections give floor(n/3) warnings
C8_Escalation ==
    []WarnAccount /\ [][RejectStep]_vars

\* C8 witness: the fourth rejection of a client, on another path than the
\* third, has started a fresh tracker at 1 after one warning
C8_Witness ==
    \E a \in Addrs :
       /\ tally[a].rejected = 4
       /\ tally[a].warned = 1
       /\ tally[a].swept = 0
       /\ a \in DOMAIN WARN_POOL
       /\ WARN_POOL[a].hits = (P_v2_ip :> 1)
\* ---------------------------------------------- version guard specification
\* the characters the guard tells apart: the slash, the letter v, digits
\* (0, in range, out of range, one that overflows a u8 in three places) and
\* the signs
GuardAlphabet == {"/", "v", "0", "1", "2", "3", "+", "-"}

\* request paths: a slash followed by up to MaxPathLen - 1 characters
GuardPaths ==
    { <<"/">> \o t :
        t \in UNION { [1..n -> GuardAlphabet] : n \in 0..(MaxPathLen - 1) } }

\* a request of the first client that the outer stages have forwarded to
\* the version guard
AtGuard(path) ==
    [IdleReq EXCEPT !.pc = "guard", !.path = path, !.rl = "admit",
                    !.trace = <<"cors", "rate", "deceiver">>]

InitGuard ==
    /\ Booted({StrProduction}, {GoodFile}, {})
    /\ CLIENTS = (1 :> <<0>>)
    /\ \E path \in GuardPaths :
          /\ DeceiverStatus(path) = 0
          /\ reqs = [r \in Slots |-> IF r = 1 THEN AtGuard(path) ELSE IdleReq]

NextGuard ==
    \E r \in Slots : Guard(r)

SpecGuard == InitGuard /\ [][NextGuard]_vars

\* whether the guard has decided on the request, and how
GuardDecided(q) == "guard" \in Range(q.trace)

GuardForwarded(q) == GuardDecided(q) /\ q.by # "guard"

\* the decimal value of a digit string
RECURSIVE DecimalValue(_, _)
DecimalValue(s, acc) ==
    IF s = <<>> THEN acc
    ELSE DecimalValue(Tail(s), acc * 10 + DigitVal(Head(s)))

\* the admission rule as the claim words it: the exemption list, or
\* /v<digits>/... with a non-empty all-digit version between 1 and
\* MAX_VERSION
VersionAdmits(path) ==
    \/ path = <<"/">>
    \/ /\ StartsWith(path, <<"/", "v">>)
       /\ \E k \in 3..Len(path) :
             /\ path[k] = "/"
             /\ \A j \in 3..(k - 1) : path[j] # "/"
             /\ k > 3
             /\ \A j \in 3..(k - 1) : DigitVal(path[j]) >= 0
             /\ DecimalValue(SubSeq(path, 3, k - 1), 0) \in 1..MAX_VERSION

\* C9: the version guard forwards a request exactly when its path is `/` or
\* has the form /v<digits>/... with a non-empty string of decimal digits
\* whose value is between 1 and MAX_VERSION
C9_GuardAdmission ==
    \A r \in Slots :
       GuardDecided(reqs[r]) =>
          (GuardForwarded(reqs[r]) <=> VersionAdmits(reqs[r].path))

\* how many of the rolls give each status
RollSplit ==
    [s \in {500, 503, 401, 403, 400, 404} |->
        Cardinality({ roll \in Rolls : GuardStatus(roll) = s })]

\* C10: a request the version guard rejects is answered by the guard with
\* one of 500, 503, 401, 403, 400, 404 and reaches no later stage; of the
\* 100 rolls 30 give 500, 20 give 503, 15 give 401, 15 give 403, 10 give
\* 400 and 10 give 404
C10_GuardRejection ==
    /\ \A r \in Slots :
          (GuardDecided(reqs[r]) /\ ~GuardForwards(reqs[r].path)) =>
             /\ reqs[r].by = "guard"
             /\ reqs[r].pc = "cors_out"
             /\ reqs[r].status \in {500, 503, 401, 403, 400, 404}
             /\ reqs[r].msg = ErrorMessage(reqs[r].status)
             /\ "token" \notin Range(reqs[r].trace)
    /\ Cardinality(Rolls) = 100
    /\ RollSplit = [s \in {500, 503, 401, 403, 400, 404} |->
                      CASE s = 500 -> 30
                        [] s = 503 -> 20
                        [] s \in {401, 403} -> 15
                        [] OTHER -> 10]

\* C10 witness: a path with a version above MAX_VERSION is rejected with the
\* status of the last band of the roll
C10_Witness ==
    \E r \in Slots :
       /\ reqs[r].path = <<"/", "v", "3", "/">>
       /\ reqs[r].by = "guard"
       /\ reqs[r].status = 404
\* ------------------------------------------------------ chain specification
\* One client sends one request at a time through the whole chain; the
\* stage and the seed file are fixed at start-up, time passes an epoch at a
\* time between requests.
P_wp_admin == <<"/","w","p","-","a","d","m","i","n">>
P_v3_ip == <<"/","v","3","/","i","p">>
P_v1_nope == <<"/","v","1","/","n","o","p","e">>

BootEpoch == BootUnix \div EPOCH_SECS

\* the seeds of the complete seed file
SeedBuf == SubSeq(FileBytes(GoodFile), 1, SEED_SIZE * TOKEN_COUNT)

\* the codes of the epochs around start-up, computed once
CodeTable ==
    [e \in (BootEpoch - 5)..(BootEpoch + 6) |-> EpochCodes(SeedBuf, e)]

\* the code of seed i (1-based) for an epoch
CodeOf(epoch, i) == CodeTable[epoch][i]

\* the codes of an epoch, as a set
CodeSet(epoch) == { CodeOf(epoch, i) : i \in 1..TOKEN_COUNT }

\* an Authorization header carrying the text
Header(text) == [present |-> TRUE, utf8 |-> TRUE, text |-> text]

Bearer(token) == Header(StrBearer \o token)

\* a header value that is not valid UTF-8
OpaqueHeader == [present |-> TRUE, utf8 |-> FALSE, text |-> <<>>]

\* the bearer token of an epoch as the specification defines it: the six
\* codes of the epoch, concatenated
BearerToken(epoch) ==
    CodeOf(epoch, 1) \o CodeOf(epoch, 2) \o CodeOf(epoch, 3) \o
    CodeOf(epoch, 4) \o CodeOf(epoch, 5) \o CodeOf(epoch, 6)

StrDevMixed == <<"D","e","v">>
StrDevelopmentUpper == <<"D","E","V","E","L","O","P","M","E","N","T">>

ChainStages == {StrProduction, StrDevMixed, StrDevelopmentUpper}
ChainFiles == {GoodFile, ShortFile, MissingFile}
ChainPaths == {P_root, P_v1_ip, P_v1_nope, P_v3_ip, P_wp_admin}
ChainAuths ==
    { NoAuth,
      OpaqueHeader,
      Header(CodeOf(BootEpoch, 1)),
      Header(<<"b","e","a","r","e","r"," ">> \o CodeOf(BootEpoch, 1)),
      Bearer(<<>>),
      Bearer(CodeOf(BootEpoch, 1)),
      Bearer(CodeOf(BootEpoch - 1, TOKEN_COUNT)),
      Bearer(BearerToken(BootEpoch)) }
ChainRequests ==
    [addr : {1}, method : {"GET"}, path : ChainPaths, auth : ChainAuths,
     origin : {NoOrigin}]
    \cup [addr : {1}, method : {"POST", "OPTIONS"},
          path : {P_v1_ip, P_wp_admin},
          auth : {NoAuth, Bearer(CodeOf(BootEpoch, 1))},
          origin : {NoOrigin}]
ChainArrivals == MaxArrivals - 2
ChainSpells == {EPOCH_SECS * TicksPerSec}

InitChain == InitWith(ChainStages, ChainFiles, {"answers"})

NextChain ==
    \/ \E r \in Slots : Quiet /\ Arrive(r, ChainRequests, ChainArrivals)
    \/ \E r \in Slots : CorsIn(r)
    \/ \E r \in Slots : RlBegin(r)
    \/ \E r \in Slots : Settled /\ RlEntry(r)
    \/ \E r \in Slots : Settled /\ RlCheck(r)
    \/ \E r \in Slots : Settled /\ RlReject(r)
    \/ \E r \in Slots : Settled /\ RlPush(r)
    \/ \E r \in Slots : Deceiver(r)
    \/ \E r \in Slots : Guard(r)
    \/ \E r \in Slots : Token(r)
    \/ \E r \in Slots : Router(r)
    \/ \E r \in Slots : CorsOut(r)
    \/ \E r \in Slots : Respond(r)
    \/ \E r \in Slots : Unwind(r)
    \/ Spell(ChainSpells)

SpecChain == InitChain /\ [][NextChain]_vars

\* whether the token authenticator has decided on the request, and how
TokenDecided(q) == "token" \in Range(q.trace)

TokenForwarded(q) == TokenDecided(q) /\ q.pc # "panic" /\ q.by # "token"

TokenRejected(q) ==
    /\ q.pc \in {"cors_out", "done"}
    /\ q.by = "token"
    /\ q.status = 403
    /\ "router" \notin Range(q.trace)

\* the request is one the token authenticator does not exempt
NotBypassed(q) == q.path # <<"/">> /\ ~IsDevStage(stage)

\* C3: a request that is not exempt is forwarded to the router exactly when
\* its Authorization header is `Bearer ` followed by the bearer token (the
\* six codes concatenated) of the current or of the preceding epoch, and is
\* answered 403 without the router being invoked otherwise
C3_TokenMatch ==
    \A r \in Slots :
       LET q == reqs[r]
           e == EpochOf(UnixNow)
       IN (TokenDecided(q) /\ NotBypassed(q) /\ SeedsReadable(passwd)) =>
             IF q.auth \in {Bearer(BearerToken(e)), Bearer(BearerToken(e - 1))}
             THEN TokenForwarded(q)
             ELSE TokenRejected(q)

\* the order in which the chain evaluates its stages
StageOrder == <<"cors", "rate", "deceiver", "guard", "token", "router">>

\* C5: the stages are evaluated in the fixed order, each only after the
\* stages outside it forwarded; the stage that answers is the last one
\* evaluated; a blacklisted or invalid-version path never reaches the token
\* authenticator; every request that has left the chain got one response
C5_PipelineOrder ==
    /\ \A r \in Slots :
          LET q == reqs[r]
          IN /\ q.trace = SubSeq(StageOrder, 1, Len(q.trace))
             /\ q.status # 0 =>
                   /\ q.by = q.trace[Len(q.trace)]
                   /\ q.pc \in {"cors_out", "done"}
             /\ (DeceiverStatus(q.path) # 0 \/ ~GuardForwards(q.path)) =>
                   ~TokenDecided(q)
    /\ arrivals = answered + Cardinality({ r \in Slots : reqs[r].pc # "idle" })

\* C6: while the seed file is missing or short, every request that is not
\* exempt and reaches the token authenticator is answered 403 by it
C6_FailClosed ==
    \A r \in Slots :
       LET q == reqs[r]
       IN (TokenDecided(q) /\ NotBypassed(q) /\ ~SeedsReadable(passwd)) =>
             TokenRejected(q)

\* C7: the token authenticator forwards every request for `/`, and every
\* request when the stage is a development stage; in production a request
\* for another path is forwarded only on a Bearer header whose token passes
\* the check against the codes of the current and the preceding epoch
C7_Bypass ==
    \A r \in Slots :
       LET q == reqs[r]
           e == EpochOf(UnixNow)
       IN TokenDecided(q) =>
             /\ q.path = <<"/">> => TokenForwarded(q)
             /\ stage \in {StrDevMixed, StrDevelopmentUpper} => TokenForwarded(q)
             /\ (stage = StrProduction /\ q.path # <<"/">> /\ TokenForwarded(q)) =>
                   /\ q.auth.present
                   /\ q.auth.utf8
                   /\ StartsWith(q.auth.text, StrBearer)
                   /\ SeedsReadable(passwd)
                   /\ StripPrefix(q.auth.text, StrBearer)
                         \in CodeSet(e - 1) \cup CodeSet(e)

\* C7 witness: in the stage "Dev", with the seed file missing, a request
\* without an Authorization header is forwarded to the router
C7_Witness ==
    /\ stage = StrDevMixed
    /\ passwd = MissingFile
    /\ \E r \in Slots :
          /\ reqs[r].path = P_v1_ip
          /\ reqs[r].auth = NoAuth
          /\ reqs[r].pc = "router"

\* ------------------------------------------------ token rotation specification
\* One client in production presents codes of the epochs around start-up
\* while time passes; the spells reach the last second of an epoch, the
\* first of the next and the first of the one after.
RotationEpochs == (BootEpoch - 2)..(BootEpoch + 3)
RotationAuths ==
    { Bearer(CodeOf(e, i)) : e \in RotationEpochs, i \in {1, TOKEN_COUNT} }
RotationRequests ==
    [addr : {1}, method : {"GET"}, path : {P_v1_ip}, auth : RotationAuths,
     origin : {NoOrigin}]
RotationSpells == { s * TicksPerSec : s \in {1, 9, EPOCH_SECS, EPOCH_SECS + 1} }

InitRotation == InitWith({StrProduction}, {GoodFile}, {})

NextRotation ==
    \/ \E r \in Slots : Quiet /\ Arrive(r, RotationRequests, MaxArrivals)
    \/ \E r \in Slots : CorsIn(r)
    \/ \E r \in Slots : RlBegin(r)
    \/ \E r \in Slots : Settled /\ RlEntry(r)
    \/ \E r \in Slots : Settled /\ RlCheck(r)
    \/ \E r \in Slots : Settled /\ RlReject(r)
    \/ \E r \in Slots : Settled /\ RlPush(r)
    \/ \E r \in Slots : Deceiver(r)
    \/ \E r \in Slots : Guard(r)
    \/ \E r \in Slots : Token(r)
    \/ \E r \in Slots : Router(r)
    \/ \E r \in Slots : CorsOut(r)
    \/ \E r \in Slots : Respond(r)
    \/ Spell(RotationSpells)

SpecRotation == InitRotation /\ [][NextRotation]_vars

\* the epoch a unix time lies in: the e with e*15 <= unix < e*15 + 15
EpochAt(unix) == (unix - (unix % 15)) \div 15

\* the tokens of an epoch
TokensOf(e) == CodeSet(e)

\* the tokens valid at a unix time, by the rotation rule
ValidAt(unix) == TokensOf(EpochAt(unix) - 1) \cup TokensOf(EpochAt(unix))

DeceiverEntries == RESP_418_PATHS \cup RESP_403_PATHS \cup RESP_400_PATHS

DeceiverPaths ==
    DeceiverEntries
       \cup { e \o <<"x">> : e \in DeceiverEntries }
       \cup { e \o <<"/">> : e \in DeceiverEntries }
       \cup { SubSeq(e, 1, Len(e) - 1) : e \in DeceiverEntries }
       \cup {P_root, P_v1_ip}

\* a request of the first client that the rate limiter has admitted
AtDeceiver(path) ==
    [IdleReq EXCEPT !.pc = "deceiver", !.path = path, !.rl = "admit",
                    !.trace = <<"cors", "rate">>]

InitDeceiver ==
    /\ Booted({StrProduction}, {GoodFile}, {})
    /\ CLIENTS = (1 :> <<0>>)
    /\ \E path \in DeceiverPaths :
          reqs = [r \in Slots |-> IF r = 1 THEN AtDeceiver(path) ELSE IdleReq]

NextDeceiver ==
    \E r \in Slots : Deceiver(r)

SpecDeceiver == InitDeceiver /\ [][NextDeceiver]_vars

\* whether the Deceiver has decided on the request, and how
DeceiverDecided(q) == "deceiver" \in Range(q.trace)

DeceiverForwarded(q) ==
    /\ DeceiverDecided(q)
    /\ q.by # "deceiver"
    /\ q.pc = "guard"
    /\ q.status = 0

DeceiverAnswered(q, status) ==
    /\ DeceiverDecided(q)
    /\ q.by = "deceiver"
    /\ q.status = status
    /\ q.pc = "cors_out"
    /\ "guard" \notin Range(q.trace)

\* C11: at the Deceiver a path other than `/` that starts with a teapot
\* entry is answered 418, otherwise one that starts with a forbidden entry
\* is answered 403, otherwise one equal to a bad-request entry is answered
\* 400 with the fixed message; every other path and `/` are forwarded, and
\* a matched path is never forwarded
C11_Deceiver ==
    \A r \in Slots :
       LET q == reqs[r]
           teapot == \E p \in RESP_418_PATHS : StartsWith(q.path, p)
           forbidden == \E p \in RESP_403_PATHS : StartsWith(q.path, p)
           bad == q.path \in RESP_400_PATHS
       IN DeceiverDecided(q) =>
             IF q.path = P_root THEN DeceiverForwarded(q)
             ELSE IF teapot THEN DeceiverAnswered(q, 418)
             ELSE IF forbidden THEN DeceiverAnswered(q, 403)
             ELSE IF bad THEN /\ DeceiverAnswered(q, 400)
                              /\ q.msg = "Bad request"
             ELSE DeceiverForwarded(q)

\* C11 witness: a path that starts with a bad-request entry without being
\* equal to it has been forwarded
C11_Witness ==
    \E r \in Slots :
       /\ reqs[r].path = <<"/","c","o","n","f","i","g",".","p","h","p","x">>
       /\ DeceiverForwarded(reqs[r])
\* ------------------------------------------------------ cors specification
\* One client sends one request at a time through the whole chain of a
\* production server; the self-host domain is fixed at start-up and the
\* requests differ in method, path, Authorization and Origin.
P_monitor_cpu == <<"/","v","1","/","m","o","n","i","t","o","r","/","c","p","u">>

\* an Origin header carrying the text
Origin(text) == [present |-> TRUE, text |-> text]

\* self-host domains: every origin, a host (also written with a blank that
\* trim removes), a wildcard
CorsDomains ==
    { StrStar, <<"x",".","i","o">>, <<"x",".","i","o"," ">>, <<"*",".","x",".","i","o">> }

\* Origin headers: none, exact and wildcard entries of the allowlist, a
\* bare wildcard suffix, the self-host domain and a host under it, a
\* foreign host, and a value with a byte outside visible ASCII
CorsOrigins ==
    { NoOrigin,
      Origin(<<"r","f","s",".","i","m">>),
      Origin(<<"a",".","r","f","s",".","i","m">>),
      Origin(<<"*",".","r","f","s",".","i","m">>),
      Origin(<<"c","a","n","m","i",".","i","c","u">>),
      Origin(<<"a",".","c","a","n","m","i",".","i","c","u">>),
      Origin(<<"x",".","i","o">>),
      Origin(<<"a",".","x",".","i","o">>),
      Origin(<<"e","v","i","l",".","c","o","m">>),
      Origin(<<OpaqueByte>> \o <<".","r","f","s",".","i","m">>) }

CorsPaths == {P_root, P_v1_ip, P_wp_admin, P_v3_ip, P_v1_nope, P_monitor_cpu}

CorsAuths ==
    {NoAuth, Bearer(CodeOf(BootEpoch, 1)), Bearer(BearerToken(BootEpoch))}

CorsRequests ==
    [addr : {1}, method : {"GET", "OPTIONS"}, path : CorsPaths,
     auth : CorsAuths, origin : CorsOrigins]

CorsArrivals == MaxArrivals - 2

InitCors ==
    /\ BootedAs({StrProduction}, CorsDomains, {GoodFile}, {})
    /\ CLIENTS = <<>>
    /\ reqs = [r \in Slots |-> IdleReq]

NextCors ==
    \/ \E r \in Slots : Quiet /\ Arrive(r, CorsRequests, CorsArrivals)
    \/ \E r \in Slots : CorsIn(r)
    \/ \E r \in Slots : RlBegin(r)
    \/ \E r \in Slots : RlEntry(r)
    \/ \E r \in Slots : RlCheck(r)
    \/ \E r \in Slots : RlReject(r)
    \/ \E r \in Slots : RlPush(r)
    \/ \E r \in Slots : Deceiver(r)
    \/ \E r \in Slots : Guard(r)
    \/ \E r \in Slots : Token(r)
    \/ \E r \in Slots : Router(r)
    \/ \E r \in Slots : CorsOut(r)
    \/ \E r \in Slots : Respond(r)

SpecCors == InitCors /\ [][NextCors]_vars

\* the fixed Allow-Methods and Allow-Headers are on the response
FixedHeaders(q) ==
    /\ q.headers.allow_methods = "GET, POST, PUT, DELETE, OPTIONS"
    /\ q.headers.allow_headers =
          "Origin, X-Requested-With, Content-Type, Accept, Authorization"

\* the response of a request is complete and about to be written
Leaving(q) == q.pc = "done"

\* C12 (state): a response to a request other than OPTIONS that leaves the
\* chain comes from one of the inner stages and carries the fixed headers
AnnotatedOnLeave ==
    \A r \in Slots :
       (Leaving(reqs[r]) /\ reqs[r].method # "OPTIONS") =>
          /\ FixedHeaders(reqs[r])
          /\ reqs[r].by \in {"rate", "deceiver", "guard", "token", "router"}

\* C12 (step): the CORS stage leaves status and body of the inner response
\* as they are, and a response is written only after the CORS stage
AnnotateStep ==
    \A r \in Slots :
       /\ (reqs[r].pc = "cors_out" /\ reqs'[r].pc # "cors_out") =>
             /\ Leaving(reqs'[r])
             /\ reqs'[r].status = reqs[r].status
             /\ reqs'[r].msg = reqs[r].msg
             /\ reqs'[r].by = reqs[r].by
       /\ (reqs[r].pc # "idle" /\ reqs'[r].pc = "idle") => Leaving(reqs[r])

\* C12: every response to a request other than OPTIONS, whichever stage
\* produced it, leaves the chain with the fixed Allow-Methods and
\* Allow-Headers and with the status and body its stage gave it
C12_CorsAnnotation ==
    []AnnotatedOnLeave /\ [][AnnotateStep]_vars

\* C12 witness: a 429 of the rate limiter, for a request without an Origin
\* on a server that allows one host only, leaves with the fixed headers
C12_Witness ==
    \E r \in Slots :
       /\ Leaving(reqs[r])
       /\ reqs[r].status = 429
       /\ reqs[r].by = "rate"
       /\ reqs[r].origin = NoOrigin
       /\ canopy_domain # StrStar
       /\ FixedHeaders(reqs[r])

\* the allowlist as the claims word it: the exact entries with the
\* self-host domain, and the suffixes of the wildcard entries
ExactEntries ==
    { e \in CORS_ALLOWLIST : ~StartsWith(e, <<"*", ".">>) }
       \cup {Trim(canopy_domain)}

WildSuffixes ==
    { StripPrefix(e, <<"*", ".">>) :
        e \in { w \in CORS_ALLOWLIST \cup {Trim(canopy_domain)} :
                  StartsWith(w, <<"*", ".">>) } }

\* an Origin text equal to an exact entry or under a wildcard entry
OnAllowlist(text) ==
    \/ text \in ExactEntries
    \/ \E sfx \in WildSuffixes : EndsWith(text, sfx) /\ text # sfx

\* C13: an OPTIONS request to any path is answered by the CORS stage with
\* 200 and an empty body, no inner stage having run, with the fixed headers;
\* when the self-host domain is not `*` and the Origin is not on the
\* allowlist, no Allow-Origin header is set and the status is still 200
C13_Preflight ==
    \A r \in Slots :
       LET q == reqs[r]
       IN q.method = "OPTIONS" =>
             /\ q.pc \in {"cors", "done"}
             /\ Leaving(q) =>
                   /\ q.status = 200
                   /\ q.msg = ""
                   /\ q.by = "cors"
                   /\ q.trace = <<"cors">>
                   /\ FixedHeaders(q)
                   /\ (/\ Trim(canopy_domain) # <<"*">>
                       /\ ~(q.origin.present /\ OnAllowlist(q.origin.text))) =>
                         ~q.headers.allow_origin.set

\* C13 witness: a preflight for a honeypot path from the bare suffix of a
\* wildcard entry is answered 200 without an Allow-Origin header
C13_Witness ==
    \E r \in Slots :
       /\ reqs[r].method = "OPTIONS"
       /\ reqs[r].path = P_wp_admin
       /\ reqs[r].origin = Origin(<<"c","a","n","m","i",".","i","c","u">>)
       /\ Leaving(reqs[r])
       /\ reqs[r].status = 200
       /\ ~reqs[r].headers.allow_origin.set
       /\ canopy_domain # StrStar

\* the origin decision for a response, given whether the request counts as
\* having an Origin header
OriginDecision(q, has) ==
    LET a == Trim(canopy_domain) = <<"*">>
        bc == has /\ OnAllowlist(q.origin.text)
        h == q.headers.allow_origin
    IN /\ h.set <=> (a \/ bc)
       /\ (h.set /\ has) => h.value = q.origin.text
       /\ (h.set /\ ~has) => h.value = <<"*">>

\* C14 as stated: Allow-Origin is set exactly when the self-host domain is
\* `*`, or the Origin equals an exact entry or the self-host domain, or
\* the Origin ends with the suffix of a wildcard entry without being equal
\* to it; for a request that has an Origin header the value is that Origin
\* verbatim, and `*` without one
C14_OriginDecision ==
    \A r \in Slots :
       Leaving(reqs[r]) => OriginDecision(reqs[r], reqs[r].origin.present)

\* C14 amended: the same, where a request has an Origin only if the header
\* value is visible ASCII; any other Origin header counts as absent
C14_OriginDecisionText ==
    \A r \in Slots :
       Leaving(reqs[r]) =>
          OriginDecision(reqs[r],
                         reqs[r].origin.present /\ ToStrOk(reqs[r].origin.text))

\* C14 witness: a host under a wildcard entry is reflected verbatim by a
\* server whose self-host domain is another host
C14_Witness ==
    \E r \in Slots :
       /\ Leaving(reqs[r])
       /\ canopy_domain = <<"x",".","i","o">>
       /\ reqs[r].origin = Origin(<<"a",".","c","a","n","m","i",".","i","c","u">>)
       /\ reqs[r].headers.allow_origin =
             [set |-> TRUE, value |-> <<"a",".","c","a","n","m","i",".","i","c","u">>]

\* C15: in production a GET of /v1/monitor/cpu from a client under its
\* limit, carrying the bearer token of the current epoch and an allowed
\* Origin, passes the five stages, reaches the route handler and leaves
\* with the handler's 200 success envelope, Allow-Origin equal to the
\* Origin and the fixed Allow-Methods and Allow-Headers
C15_EndToEnd ==
    \A r \in Slots :
       LET q == reqs[r]
       IN (/\ Leaving(q)
           /\ stage = StrProduction
           /\ q.method = "GET"
           /\ q.path = P_monitor_cpu
           /\ q.rl = "admit"
           /\ q.auth = Bearer(BearerToken(EpochAt(UnixNow)))
           /\ q.origin.present
           /\ OnAllowlist(q.origin.text)) =>
             /\ q.trace = StageOrder
             /\ q.by = "router"
             /\ q.status = 200
             /\ q.msg = "data"
             /\ q.headers.allow_origin = [set |-> TRUE, value |-> q.origin.text]
             /\ FixedHeaders(q)
\* ----------------------------------------------------- sweep specification
\* Clients send their requests, one at a time, during the first IDLE_SECS
\* and then stop; time passes between requests in steps of the idle limit
\* or the tracker lifetime, and the cleanup task runs beside
\* the handlers.  Time is followed until the clients have stopped and the
\* maps are empty.
SweepRequests == Gets({1}, {P_v1_ip}) \cup Gets(Addrs \ {1}, {P_root})
SweepArrivals == MaxArrivals - 2
SweepSteps == {IDLE_SECS * TicksPerSec, TRACKER_SECS * TicksPerSec}
SweepDeadline == IDLE_SECS * TicksPerSec

\* time passes while no request is in flight and no pass of the cleanup
\* task is due or under way (a pass takes no time on this scale); once the
\* clients have stopped and both maps are empty nothing is left to follow
Pass(steps, deadline) ==
    /\ Quiet
    /\ sweepPc = "sleep"
    /\ clock < sweepWake
    /\ clock <= deadline \/ CLIENTS # <<>> \/ WARN_POOL # <<>>
    /\ \E d \in steps : clock' = clock + d
    /\ UNCHANGED <<stage, canopy_domain, setup, passwd, CLIENTS, WARN_POOL,
                   entryLock, reqs, sweepPc, sweepWake, advances, arrivals,
                   observe, hist, tally, answered,
                   warnLock, monitor, iostat>>

InitSweep == InitWith({StrProduction}, {GoodFile}, {"hist", "tally"})

\* the steps of the handler tasks
HandlerStep ==
    \/ \E r \in Slots : CorsIn(r)
    \/ \E r \in Slots : RlBegin(r)
    \/ \E r \in Slots : RlEntry(r)
    \/ \E r \in Slots : RlCheck(r)
    \/ \E r \in Slots : RlReject(r)
    \/ \E r \in Slots : RlPush(r)
    \/ \E r \in Slots : Deceiver(r)
    \/ \E r \in Slots : Guard(r)
    \/ \E r \in Slots : Token(r)
    \/ \E r \in Slots : Router(r)
    \/ \E r \in Slots : CorsOut(r)
    \/ \E r \in Slots : Respond(r)

NextSweep ==
    \/ \E r \in Slots :
          /\ clock <= SweepDeadline
          /\ Quiet
          /\ Arrive(r, SweepRequests, SweepArrivals)
    \/ HandlerStep
    \/ Pass(SweepSteps, SweepDeadline)
    \/ SweepWake
    \/ SweepClients
    \/ SweepWarn

\* the runtime schedules every task that can run, and time passes
SpecSweep ==
    /\ InitSweep
    /\ [][NextSweep]_vars
    /\ WF_vars(HandlerStep)
    /\ WF_vars(Pass(SweepSteps, SweepDeadline))
    /\ WF_vars(SweepWake)
    /\ WF_vars(SweepClients)
    /\ WF_vars(SweepWarn)

\* the client has sent a request, and how long ago the last one was
Seen(a) == hist[a].d.kind = "decide"

IdleFor(a) == clock - hist[a].last

\* C16 (pass): a pass leaves no window of a client idle for IDLE_SECS or
\* more and no tracker of TRACKER_SECS or more, and ends by sleeping
\* SWEEP_SECS
SweepPass ==
    /\ (sweepPc = "clients" /\ sweepPc' # "clients") =>
          /\ sweepPc' = "warn"
          /\ \A a \in DOMAIN CLIENTS' :
                Seen(a) /\ IdleFor(a) < IDLE_SECS * TicksPerSec
    /\ (sweepPc = "warn" /\ sweepPc' # "warn") =>
          /\ sweepPc' = "sleep"
          /\ sweepWake' = clock + SWEEP_SECS * TicksPerSec
          /\ \A a \in DOMAIN WARN_POOL' :
                clock - WARN_POOL'[a].first_seen < TRACKER_SECS * TicksPerSec

\* C16 (schedule): the next pass is never due later than SWEEP_SECS from
\* now, and a pass that is due starts
SweepDue ==
    /\ [](sweepPc = "sleep" => sweepWake <= clock + SWEEP_SECS * TicksPerSec)
    /\ (sweepPc = "sleep" /\ clock >= sweepWake) ~> (sweepPc = "clients")
    /\ (sweepPc = "clients") ~> (sweepPc = "sleep")

\* the state of every client is gone from both maps
AllEvicted == CLIENTS = <<>> /\ WARN_POOL = <<>>

\* C16: the sweep runs every SWEEP_SECS; each pass removes every window of
\* a client idle for IDLE_SECS or more and every tracker of TRACKER_SECS or
\* more, escalated or not; so, with the sweep scheduled fairly, the state
\* of a client that has stopped sending is eventually removed from both
\* maps for good
C16_SweepEviction ==
    /\ [][SweepPass]_vars
    /\ SweepDue
    /\ <>[]AllEvicted

\* C16 witness: a client was rejected, its tracker never escalated, and
\* the sweep has removed both its window and its tracker
C16_Witness ==
    \E a \in Addrs :
       /\ Seen(a)
       /\ tally[a].rejected = 1
       /\ tally[a].warned = 0
       /\ tally[a].swept = 1
       /\ a \notin DOMAIN CLIENTS
       /\ a \notin DOMAIN WARN_POOL
\* ------------------------------------------------- seed store specification
\* init_token runs at every start of the process; a run can end early by a
\* panic of one of its expect calls or by the process being killed, and the
\* process can be started again.
MaxRuns == 3

\* how much of the data write_all has written when it fails or the process
\* dies under it: nothing, one seed, all but the last byte
PartialSizes == {0, SEED_SIZE, SEED_SIZE * TOKEN_COUNT - 1}

SetupStart == [pc |-> "exists", draws |-> 0, reveals |-> 0, runs |-> 1]

\* init_token, lines 21-23
SetupCheck ==
    /\ setup.pc = "exists"
    /\ setup' = [setup EXCEPT !.pc = IF SeedFileExists(passwd) THEN "done"
                                     ELSE "generate"]
    /\ UNCHANGED <<clock, stage, canopy_domain, passwd, CLIENTS, WARN_POOL,
                   entryLock, reqs, sweepPc, sweepWake, advances, arrivals,
                   observe, hist, tally, answered,
                   warnLock, monitor, iostat>>

\* init_token, lines 25-27: all_seeds
SetupGenerate ==
    /\ setup.pc = "generate"
    /\ setup' = [setup EXCEPT !.pc = "mkdir", !.draws = @ + 1]
    /\ UNCHANGED <<clock, stage, canopy_domain, passwd, CLIENTS, WARN_POOL,
                   entryLock, reqs, sweepPc, sweepWake, advances, arrivals,
                   observe, hist, tally, answered,
                   warnLock, monitor, iostat>>

\* save_seed_to_file, lines 102-104: create_dir_all(..).expect(..)
SetupMkdir ==
    /\ setup.pc = "mkdir"
    /\ \E ok \in BOOLEAN :
          setup' = [setup EXCEPT !.pc = IF ok THEN "create" ELSE "ended"]
    /\ UNCHANGED <<clock, stage, canopy_domain, passwd, CLIENTS, WARN_POOL,
                   entryLock, reqs, sweepPc, sweepWake, advances, arrivals,
                   observe, hist, tally, answered,
                   warnLock, monitor, iostat>>

\* save_seed_to_file, line 106: File::create(..).expect(..) leaves an
\* empty file
SetupCreate ==
    /\ setup.pc = "create"
    /\ \E ok \in BOOLEAN :
          IF ok
          THEN /\ passwd' = [exists |-> TRUE, size |-> 0, gen |-> setup.draws]
               /\ setup' = [setup EXCEPT !.pc = "write"]
          ELSE /\ passwd' = passwd
               /\ setup' = [setup EXCEPT !.pc = "ended"]
    /\ UNCHANGED <<clock, stage, canopy_domain, CLIENTS, WARN_POOL,
                   entryLock, reqs, sweepPc, sweepWake, advances, arrivals,
                   observe, hist, tally, answered,
                   warnLock, monitor, iostat>>

\* save_seed_to_file, line 107: file.write_all(data).expect(..); a failed
\* write leaves what was written before it
SetupWrite ==
    /\ setup.pc = "write"
    /\ \/ /\ passwd' = [passwd EXCEPT !.size = SEED_SIZE * TOKEN_COUNT]
          /\ setup' = [setup EXCEPT !.pc = "reveal"]
       \/ \E n \in PartialSizes :
             /\ passwd' = [passwd EXCEPT !.size = n]
             /\ setup' = [setup EXCEPT !.pc = "ended"]
    /\ UNCHANGED <<clock, stage, canopy_domain, CLIENTS, WARN_POOL,
                   entryLock, reqs, sweepPc, sweepWake, advances, arrivals,
                   observe, hist, tally, answered,
                   warnLock, monitor, iostat>>

\* init_token, lines 30-62: the seeds are shown to the operator
SetupReveal ==
    /\ setup.pc = "reveal"
    /\ setup' = [setup EXCEPT !.pc = "done", !.reveals = @ + 1]
    /\ UNCHANGED <<clock, stage, canopy_domain, passwd, CLIENTS, WARN_POOL,
                   entryLock, reqs, sweepPc, sweepWake, advances, arrivals,
                   observe, hist, tally, answered,
                   warnLock, monitor, iostat>>

\* the process is killed while init_token runs
SetupKilled ==
    /\ setup.pc \notin {"done", "ended"}
    /\ setup' = [setup EXCEPT !.pc = "ended"]
    /\ UNCHANGED <<clock, stage, canopy_domain, passwd, CLIENTS, WARN_POOL,
                   entryLock, reqs, sweepPc, sweepWake, advances, arrivals,
                   observe, hist, tally, answered,
                   warnLock, monitor, iostat>>

\* the process is started again
SetupAgain ==
    /\ setup.pc \in {"done", "ended"}
    /\ setup.runs < MaxRuns
    /\ setup' = [setup EXCEPT !.pc = "exists", !.runs = @ + 1]
    /\ UNCHANGED <<clock, stage, canopy_domain, passwd, CLIENTS, WARN_POOL,
                   entryLock, reqs, sweepPc, sweepWake, advances, arrivals,
                   observe, hist, tally, answered,
                   warnLock, monitor, iostat>>

\* the first start finds no seed file, or one a former installation left
InitSeed ==
    /\ clock = 0
    /\ stage = StrProduction
    /\ canopy_domain = StrStar
    /\ setup = SetupStart
    /\ passwd \in {MissingFile, GoodFile}
    /\ CLIENTS = <<>>
    /\ WARN_POOL = <<>>
    /\ entryLock = [a \in Addrs |-> 0]
    /\ warnLock = [a \in Addrs |-> 0]
    /\ monitor = MonitorNew
    /\ iostat = IostatNew
    /\ reqs = [r \in Slots |-> IdleReq]
    /\ sweepPc = "sleep"
    /\ sweepWake = SWEEP_SECS * TicksPerSec
    /\ advances = 0
    /\ arrivals = 0
    /\ observe = {}
    /\ hist = [a \in Addrs |-> NoHist]
    /\ tally = [a \in Addrs |-> NoTally]
    /\ answered = 0

NextSeed ==
    \/ SetupCheck
    \/ SetupGenerate
    \/ SetupMkdir
    \/ SetupCreate
    \/ SetupWrite
    \/ SetupReveal
    \/ SetupKilled
    \/ SetupAgain

SpecSeed == InitSeed /\ [][NextSeed]_vars

\* C17 (step): a run that finds the seed file returns at once, leaving the
\* file, the generator and the operator's screen alone
FoundStep ==
    (setup.pc = "exists" /\ passwd.exists /\ setup'.pc # "exists") =>
       /\ setup'.pc \in {"done", "ended"}
       /\ passwd' = passwd
       /\ FileBytes(passwd') = FileBytes(passwd)
       /\ setup'.draws = setup.draws
       /\ setup'.reveals = setup.reveals

\* C17 (state): a run is past the test only if it found no seed file; the
\* file it is about to create does not exist yet
PastCheck ==
    /\ setup.pc \in {"generate", "mkdir", "create"} => ~passwd.exists
    /\ setup.pc \in {"write", "reveal"} => passwd.gen = setup.draws

\* C17: seed initialization run when the seed file exists leaves the file's
\* contents unchanged, with no regeneration, no overwrite and no reveal,
\* however often it is run
C17_Idempotent ==
    []PastCheck /\ [][FoundStep]_vars

\* C17 witness: the third run has found the file the first run wrote and
\* has left it as it was
C17_Witness ==
    /\ setup = [pc |-> "done", draws |-> 1, reveals |-> 1, runs |-> MaxRuns]
    /\ passwd = GoodFile

\* C18: in every reachable state, also after a failure or a kill at any
\* step of seed initialization, the seed file is either absent or holds
\* the complete SEED_SIZE * TOKEN_COUNT bytes
C18_AtomicWrite ==
    passwd.exists => passwd.size = SEED_SIZE * TOKEN_COUNT
\* ------------------------------------------------- per-path specification
\* Two clients send requests for the root path and for another path while
\* time passes within one period; the history keeps the path of every
\* admitted request.
PathRequests == Gets(Addrs, {P_root, P_v1_ip})
PathArrivals == MaxArrivals - 2

InitPaths == InitWith({StrProduction}, {GoodFile}, {"hist", "paths"})

NextPaths ==
    \/ \E r \in Slots : Quiet /\ Arrive(r, PathRequests, PathArrivals)
    \/ HandlerStep
    \/ Settled /\ Advance(RateSteps)

SpecPaths == InitPaths /\ [][NextPaths]_vars

\* the requests of a client admitted for a path less than a period before
\* an instant
AdmittedFor(a, path, now, period) ==
    Len(SelectSeq(hist[a].byPath,
                  LAMBDA e : e[2] = path /\ DurationSince(now, e[1]) < period))

\* C19: the limit is per client and per path: a request is rejected only
\* when the client has had `limit` requests for that same path admitted
\* within the period, so requests for one path do not count against the
\* limit of another
C19_PerPath ==
    \A a \in Addrs :
       LET d == hist[a].d
       IN (d.kind = "decide" /\ d.inorder /\ ~d.admitted) =>
             AdmittedFor(a, d.path, d.now, d.period) >= d.limit

\* the timestamps a step removes from windows are live under no rule
PruneStep ==
    \A r \in Slots :
       (reqs[r].pc = "rl_entry" /\ reqs'[r].pc = "rl_check") =>
          LET a == reqs[r].addr
              old == IF a \in DOMAIN CLIENTS THEN CLIENTS[a] ELSE <<>>
          IN \A i \in DOMAIN old :
                ~StillLive(reqs[r].now, old[i], MaxPeriod) \/
                   Len(SelectSeq(CLIENTS'[a], LAMBDA t : t = old[i])) =
                      Len(SelectSeq(old, LAMBDA t : t = old[i]))

PruneKeepsLive == [][PruneStep]_vars
\* ------------------------------------------------ isolation specification
\* The clients send requests one at a time, within a period or across
\* periods, often enough for one of them to be warned while another holds
\* a tracker; the first client also asks for the path of the other rule.
IsolationRequests == Gets(Addrs, {P_v1_ip}) \cup Gets({1}, {P_root})
IsolationArrivals == MaxArrivals + 4

InitIsolation == InitWith({StrProduction}, {GoodFile}, {"hist", "tally"})

NextIsolation ==
    \/ \E r \in Slots :
          Quiet /\ Arrive(r, IsolationRequests, IsolationArrivals)
    \/ HandlerStep
    \/ Spell({MaxPeriod})

SpecIsolation == InitIsolation /\ [][NextIsolation]_vars

\* the entry of a key in a map, none without one
EntryOf(map, key) ==
    IF key \in DOMAIN map THEN <<map[key]>> ELSE <<>>

\* the client whose request a step of slot r handles
ClientOf(r) ==
    IF reqs[r].pc = "idle" THEN reqs'[r].addr ELSE reqs[r].addr

\* C20 (frame): a step that handles a request of one client leaves the
\* window and the tracker of every other client as they are
FrameStep ==
    \A r \in Slots :
       reqs'[r] # reqs[r] =>
          \A b \in Addrs \ {ClientOf(r)} :
             /\ EntryOf(CLIENTS', b) = EntryOf(CLIENTS, b)
             /\ EntryOf(WARN_POOL', b) = EntryOf(WARN_POOL, b)

\* C20 (decision): the window a request is tested against holds the
\* client's own admitted requests that are still live, and nothing else;
\* the test compares its length with the limit of the request's path
OwnWindow ==
    \A r \in Slots :
       LET q == reqs[r]
           rule == RuleFor(q.path)
           own == SelectSeq(hist[q.addr].adm,
                            LAMBDA t : DurationSince(q.now, t) < rule.period)
       IN /\ q.pc = "rl_check" => CLIENTS[q.addr] = own
          /\ q.pc = "rl_reject" => Len(CLIENTS[q.addr]) >= rule.limit
          /\ q.pc = "rl_push" => Len(CLIENTS[q.addr]) < rule.limit

\* C20: handling a request of client A, admitted or rejected, leaves the
\* window and the tracker of every other client unchanged, and whether A
\* is admitted depends on A's own admitted requests only
C20_Isolation ==
    []OwnWindow /\ [][FrameStep]_vars

\* C20 witness: a client has been warned, its tracker removed, while the
\* tracker of another client, rejected once, is still in the pool
C20_Witness ==
    \E a \in Addrs, b \in Addrs :
       /\ a # b
       /\ tally[a].warned = 1
       /\ tally[a].rejected = 3
       /\ a \notin DOMAIN WARN_POOL
       /\ tally[b].rejected = 1
       /\ b \in DOMAIN WARN_POOL
       /\ TotalHits(WARN_POOL[b].hits) = 1

\* --------------------------------------------- sweep blocking specification
\* DashMap::retain takes the write lock of a shard, visits the entries of
\* the shard and releases the lock; CLIENTS.entry(addr) takes the write
\* lock of the shard of addr.  Here the clients' addresses fall in one
\* shard, and the pass over CLIENTS is followed lock by lock: the cleanup
\* task is one more holder of the entry guards.
SweepTask == NumSlots + 1

SweepHolds == \E a \in Addrs : entryLock[a] = SweepTask

\* the cleanup task: clients.retain(..) gets the write lock of the shard
SweepHold ==
    /\ sweepPc = "clients"
    /\ \A a \in Addrs : EntryFree(a)
    /\ entryLock' = [a \in Addrs |-> SweepTask]
    /\ UNCHANGED <<clock, stage, canopy_domain, setup, passwd, CLIENTS,
                   WARN_POOL, reqs, sweepPc, sweepWake, advances, arrivals,
                   observe, hist, tally, answered,
                   warnLock, monitor, iostat>>

\* the cleanup task: clients.retain(..) has visited the entries of the
\* shard and releases its lock
SweepRelease ==
    LET kept == { a \in DOMAIN CLIENTS : ClientKept(CLIENTS[a], clock) }
    IN /\ sweepPc = "clients"
       /\ SweepHolds
       /\ CLIENTS' = [a \in kept |-> CLIENTS[a]]
       /\ entryLock' = [a \in Addrs |-> 0]
       /\ sweepPc' = "warn"
       /\ UNCHANGED <<clock, stage, canopy_domain, setup, passwd, WARN_POOL,
                      reqs, sweepWake, advances, arrivals, observe, hist,
                      tally, answered,
                      warnLock, monitor, iostat>>

BlockRequests == SweepRequests
BlockArrivals == MaxArrivals - 2

InitBlock == InitWith({StrProduction}, {GoodFile}, {"hist"})

NextBlock ==
    \/ \E r \in Slots : Arrive(r, BlockRequests, BlockArrivals)
    \/ HandlerStep
    \/ Pass(SweepSteps, SweepDeadline)
    \/ SweepWake
    \/ SweepHold
    \/ SweepRelease
    \/ SweepWarn

SpecBlock == InitBlock /\ [][NextBlock]_vars

\* a handler is at CLIENTS.entry(addr) and cannot go on
Waiting(r) ==
    /\ reqs[r].pc = "rl_entry"
    /\ ~EntryFree(reqs[r].addr)

\* C21: a handler that wants the entry of its client is never made to wait
\* for a pass of the sweep: whenever it is at CLIENTS.entry(addr), the
\* entry is not locked by the cleanup task
C21_SweepNonBlocking ==
    \A r \in Slots : Waiting(r) => entryLock[reqs[r].addr] # SweepTask

\* the other direction: the pass never starts on a shard while a handler
\* holds an entry guard in it
SweepWaits ==
    SweepHolds => \A r \in Slots : reqs[r].pc \notin {"rl_check", "rl_reject", "rl_push"}

\* ------------------------------------------------------- bearer token shape
\* the token a request presents: what follows `Bearer `
Presented(q) == StripPrefix(q.auth.text, StrBearer)

\* the request carries a well-formed Bearer header
CarriesBearer(q) ==
    q.auth.present /\ q.auth.utf8 /\ StartsWith(q.auth.text, StrBearer)

\* C22: at any instant the accepted tokens are the two bearer tokens, each
\* the six 6-digit codes of one epoch (current or preceding) concatenated:
\* a request that is not exempt is forwarded by the token authenticator
\* only if it presents one of the two, never on a single 6-digit code, and
\* a request presenting one of the two is forwarded
C22_TokenShape ==
    \A r \in Slots :
       LET q == reqs[r]
           e == EpochOf(UnixNow)
           accepted == {BearerToken(e), BearerToken(e - 1)}
       IN (TokenDecided(q) /\ NotBypassed(q) /\ SeedsReadable(passwd)
              /\ CarriesBearer(q)) =>
             /\ TokenForwarded(q) =>
                   /\ Presented(q) \in accepted
                   /\ Len(Presented(q)) = TOKEN_COUNT * CODE_WIDTH
             /\ Presented(q) \in accepted => TokenForwarded(q)

\* ------------------------------------------------ seed file specification
\* The process has started with a complete seed file; while it serves
\* requests the file is replaced by other seeds, truncated or deleted.
LoadedFile == GoodFile
ReplacedFile == [GoodFile EXCEPT !.gen = 2]

\* a code of the current epoch under the seeds that replace the first ones
ReplacedCode ==
    EpochCodes(SubSeq(FileBytes(ReplacedFile), 1, SEED_SIZE * TOKEN_COUNT),
               BootEpoch)[1]

\* something outside the process writes, truncates or removes the seed file
\* (PASSWD_PATH); nothing in the process holds the file open
Tamper ==
    /\ Quiet
    /\ passwd' \in {ReplacedFile, ShortFile, MissingFile} \ {passwd}
    /\ UNCHANGED <<clock, stage, canopy_domain, setup, CLIENTS, WARN_POOL,
                   entryLock, reqs, sweepPc, sweepWake, advances, arrivals,
                   observe, hist, tally, answered,
                   warnLock, monitor, iostat>>

TamperAuths ==
    {NoAuth, Bearer(CodeOf(BootEpoch, 1)), Bearer(ReplacedCode)}
TamperRequests ==
    [addr : {1}, method : {"GET"}, path : {P_root, P_v1_ip},
     auth : TamperAuths, origin : {NoOrigin}]
TamperArrivals == MaxArrivals - 2

InitTamper == InitWith({StrProduction}, {LoadedFile}, {"answers"})

NextTamper ==
    \/ \E r \in Slots : Quiet /\ Arrive(r, TamperRequests, TamperArrivals)
    \/ HandlerStep
    \/ \E r \in Slots : Unwind(r)
    \/ Tamper

SpecTamper == InitTamper /\ [][NextTamper]_vars

\* C23: the seeds are immutable once loaded: whatever happens to the seed
\* file while the process runs, the token authenticator decides each
\* request as the seeds of the file at start-up have it, forwarding the
\* tokens derived from them and answering 403 to every other
C23_SeedImmutable ==
    \A r \in Slots :
       LET q == reqs[r]
           loaded == TokenOutcome(q.path, stage, q.auth, LoadedFile, UnixNow)
       IN (TokenDecided(q) /\ NotBypassed(q)) =>
             /\ loaded = "forward" => TokenForwarded(q)
             /\ loaded = "forbidden" => TokenRejected(q)

\* -------------------------------------------------------------- logging
\* the text has the other as a contiguous part
Contains(s, part) ==
    \E i \in 1..(Len(s) - Len(part) + 1) :
       SubSeq(s, i, i + Len(part) - 1) = part

\* the calls of log::log a stage made for the request
LogsOf(q, by) == SelectSeq(q.logs, LAMBDA l : l.by = by)

\* the reason a rejection of the token authenticator has
TokenReason(q) ==
    IF ~q.auth.present THEN "no authorization header"
    ELSE IF ~CarriesBearer(q) THEN "invalid header format"
    ELSE "token mismatch"

\* the tokens valid at the epoch: the bearer tokens of the epoch and of the
\* one before, and the codes they are made of
ValidTokens(e) ==
    {BearerToken(e), BearerToken(e - 1)} \cup CodeSet(e) \cup CodeSet(e - 1)

\* C24: every rejection of the token authenticator is logged once at debug
\* severity with its reason (missing header, malformed header, mismatch);
\* the log of a mismatch does not contain the presented token, and no log
\* entry contains a token that is valid at the time
C24_AuthLogging ==
    \A r \in Slots :
       LET q == reqs[r]
           logs == LogsOf(q, "token")
       IN TokenRejected(q) =>
             /\ Len(logs) = 1
             /\ logs[1].level = "Debug"
             /\ logs[1].reason = TokenReason(q)
             /\ (logs[1].reason = "token mismatch" /\ Presented(q) # <<>>) =>
                   ~Contains(logs[1].value, Presented(q))
             /\ \A valid \in ValidTokens(EpochOf(UnixNow)) :
                   ~Contains(logs[1].value, valid)

\* the part of C24 the code keeps: one debug entry with the reason, the
\* header's value in it only when the header is malformed
AuthLogged ==
    \A r \in Slots :
       LET q == reqs[r]
           logs == LogsOf(q, "token")
       IN TokenRejected(q) =>
             /\ Len(logs) = 1
             /\ logs[1].level = "Debug"
             /\ logs[1].reason = TokenReason(q)
             /\ logs[1].reason = "no authorization header" =>
                   logs[1].value = <<>>

\* the stages that reject, and a request one of them has rejected
AdmissionStages == {"rate", "deceiver", "guard", "token"}

RejectedBy(q, by) ==
    /\ q.pc \in {"cors_out", "done"}
    /\ q.by = by
    /\ q.status # 0

\* C25: every rejection by an admission stage (the rate limiter's 429, the
\* deceiver's 400/403/418, the version guard's random status, the token
\* authenticator's 403) is logged by that stage at debug severity
C25_RejectionLogged ==
    \A r \in Slots : \A by \in AdmissionStages :
       RejectedBy(reqs[r], by) =>
          \E i \in 1..Len(reqs[r].logs) :
             /\ reqs[r].logs[i].by = by
             /\ reqs[r].logs[i].level = "Debug"

\* the part of C25 the code keeps: the rejections of the rate limiter and
\* of the token authenticator are logged at debug severity
LimiterAndTokenLogged ==
    \A r \in Slots : \A by \in {"rate", "token"} :
       RejectedBy(reqs[r], by) =>
          \E i \in 1..Len(reqs[r].logs) :
             /\ reqs[r].logs[i].by = by
             /\ reqs[r].logs[i].level = "Debug"

\* -------------------------------------------------------- response envelope
ErrorEnvelope(body) ==
    /\ DOMAIN body = {"status", "message", "timestamp"}
    /\ body.status = "Error"

SuccessEnvelope(body) ==
    /\ DOMAIN body = {"status", "data", "timestamp"}
    /\ body.status = "Success"

Bare(q) ==
    \/ q.by = "cors" /\ q.method = "OPTIONS" /\ q.status = 200
    \/ q.by = "router" /\ q.status = 405

NonDecreasing(s) ==
    \A i \in 1..(Len(s) - 1) : s[i] <= s[i + 1]

\* C27: under any interleaving of concurrent requests of a client, every
\* window is a sequence of timestamps in non-decreasing order, so that its
\* last element is the client's most recent admitted request
C27_WindowOrdered ==
    \A a \in DOMAIN CLIENTS :
       /\ NonDecreasing(CLIENTS[a])
       /\ \A i \in 1..Len(CLIENTS[a]) :
             CLIENTS[a][i] <= CLIENTS[a][Len(CLIENTS[a])]

\* ----------------------------------------------------------- window bound
\* the largest limit of any rule
MaxLimit == Max(ROOT_LIMIT, DEFAULT_LIMIT)

\* the window of a client, empty when it has none
WindowOf(clients, a) ==
    IF a \in DOMAIN clients THEN clients[a] ELSE <<>>

\* C28 (append): a step that makes a window longer is the push of an
\* admitted request of that client, found under the limit of its path, and
\* adds the request's timestamp at the end; the rejection of a request
\* leaves every window as it is
AppendStep ==
    /\ \A a \in Addrs :
          Len(WindowOf(CLIENTS', a)) > Len(WindowOf(CLIENTS, a)) =>
             \E r \in Slots :
                /\ reqs[r].pc = "rl_push"
                /\ reqs'[r].pc = "deceiver"
                /\ reqs[r].addr = a
                /\ reqs[r].rl = "admit"
                /\ Len(CLIENTS[a]) < RuleFor(reqs[r].path).limit
                /\ CLIENTS'[a] = Append(CLIENTS[a], reqs[r].now)
    /\ \A r \in Slots :
          (reqs[r].pc = "rl_reject" /\ reqs'[r].pc # "rl_reject") =>
             /\ reqs'[r].status = 429
             /\ CLIENTS' = CLIENTS

\* C28: a timestamp is appended to a window only by an admitted request, a
\* rejected request adds nothing, and no window ever holds more timestamps
\* than the largest limit of any rule
C28_WindowBound ==
    /\ [](\A a \in DOMAIN CLIENTS : Len(CLIENTS[a]) <= MaxLimit)
    /\ [][AppendStep]_vars

\* C28 witness: a window holds as many timestamps as the largest limit
\* allows, and a further request of the client has been rejected
C28_Witness ==
    \E r \in Slots :
       /\ reqs[r].pc = "cors_out"
       /\ reqs[r].by = "rate"
       /\ reqs[r].status = 429
       /\ reqs[r].addr \in DOMAIN CLIENTS
       /\ Len(CLIENTS[reqs[r].addr]) = MaxLimit

\* ------------------------------------------------------- tracker invariant
\* the handler of slot r rejects a request of client a in this step
Rejects(r, a) ==
    /\ reqs[r].addr = a
    /\ reqs[r].pc = "rl_reject"
    /\ reqs'[r].pc = "cors_out"
    /\ reqs'[r].status = 429

\* C29 (range): every stored tracker counts one or two hits in all, and at
\* least one for each path it has
TrackerRange ==
    \A a \in DOMAIN WARN_POOL :
       /\ TotalHits(WARN_POOL[a].hits) \in {1, 2}
       /\ \A p \in DOMAIN WARN_POOL[a].hits : WARN_POOL[a].hits[p] >= 1

\* C29 (step): a tracker appears, with one hit and first seen now, only in
\* a rejection of its client; it changes, by one hit more and nothing
\* else, only in a rejection of its client; it goes only in the client's
\* third rejection or in the sweep; every rejection counts one, the third
\* bringing the count back to none; every other step of a handler leaves
\* the pool as it is
TrackerStep ==
    /\ \A a \in Addrs :
          LET had == a \in DOMAIN WARN_POOL
              has == a \in DOMAIN WARN_POOL'
          IN /\ (~had /\ has) =>
                   /\ \E r \in Slots : Rejects(r, a)
                   /\ WARN_POOL'[a].first_seen = clock
                   /\ TotalHits(WARN_POOL'[a].hits) = 1
             /\ (had /\ has /\ WARN_POOL'[a] # WARN_POOL[a]) =>
                   /\ \E r \in Slots : Rejects(r, a)
                   /\ WARN_POOL'[a].first_seen = WARN_POOL[a].first_seen
                   /\ TotalHits(WARN_POOL'[a].hits) =
                         TotalHits(WARN_POOL[a].hits) + 1
             /\ (had /\ ~has) =>
                   \/ /\ \E r \in Slots : Rejects(r, a)
                      /\ TotalHits(WARN_POOL[a].hits) = WARN_TOTAL - 1
                   \/ sweepPc = "warn" /\ sweepPc' = "sleep"
    /\ \A r \in Slots : \A a \in Addrs :
          Rejects(r, a) =>
             TotalHits(HitsOf(WARN_POOL', a)) =
                (TotalHits(HitsOf(WARN_POOL, a)) + 1) % WARN_TOTAL
    /\ \A r \in Slots :
          (reqs'[r] # reqs[r] /\ reqs[r].pc # "rl_reject") =>
             WARN_POOL' = WARN_POOL

\* C29: between the steps of the handlers every stored tracker has a total
\* of one or two hits; a tracker is created only by a rejection and changed
\* only by rejections of its own client; an admitted request leaves the
\* warning pool unchanged
C29_TrackerInvariant ==
    []TrackerRange /\ [][TrackerStep]_vars

\* C29 witness: a client's tracker holds two hits while a later request of
\* the same client, admitted, is on its way through the chain
C29_Witness ==
    \E r \in Slots :
       /\ reqs[r].rl = "admit"
       /\ reqs[r].pc = "deceiver"
       /\ reqs[r].addr \in DOMAIN WARN_POOL
       /\ TotalHits(WARN_POOL[reqs[r].addr].hits) = 2
       /\ WARN_POOL[reqs[r].addr].first_seen < reqs[r].now

\* ------------------------------------------------- budget specification
\* The first client asks for a honeypot path only, so that every request of
\* its that the rate limiter admits is rejected by the deceiver; the other
\* clients ask for paths the version guard, the token authenticator and
\* the router answer.  Requests come one at a time, within a period or
\* across periods.
BudgetRequests ==
    Gets({1}, {P_wp_admin}) \cup Gets(Addrs \ {1}, {P_v3_ip, P_v1_ip, P_root})
BudgetArrivals == MaxArrivals - 1

InitBudget == InitWith({StrProduction}, {GoodFile}, {"hist"})

NextBudget ==
    \/ \E r \in Slots : Quiet /\ Arrive(r, BudgetRequests, BudgetArrivals)
    \/ HandlerStep
    \/ Spell({MaxPeriod})

SpecBudget == InitBudget /\ [][NextBudget]_vars

\* the request has passed the rate limiter and is with an inner stage, or
\* has its answer from one
PastLimiter(q) ==
    /\ q.rl = "admit"
    /\ q.pc \in {"deceiver", "guard", "token", "router", "cors_out", "done"}

\* C30 (recorded): the timestamp of an admitted request is in its client's
\* window from the moment the request is handed to the inner stages, and
\* stays there whatever they answer
InnerCounted ==
    \A r \in Slots :
       PastLimiter(reqs[r]) =>
          reqs[r].now \in Range(WindowOf(CLIENTS, reqs[r].addr))

\* C30 (budget): a request for a honeypot path is answered by the deceiver
\* while the client's admitted requests of the period, all of them rejected
\* by an inner stage, are fewer than the limit, and is answered 429 by the
\* rate limiter, the deceiver not being asked, once they are not
HoneypotBudget ==
    \A r \in Slots :
       LET q == reqs[r]
           d == hist[q.addr].d
       IN (DeceiverStatus(q.path) # 0 /\ q.status # 0) =>
             /\ d.kind = "decide"
             /\ IF d.live >= RuleFor(q.path).limit
                THEN /\ q.status = 429
                     /\ q.by = "rate"
                     /\ "deceiver" \notin Range(q.trace)
                ELSE /\ q.status = DeceiverStatus(q.path)
                     /\ q.by = "deceiver"

\* C30: an admitted request is recorded before the inner stages decide, so
\* a request the deceiver, the version guard or the token authenticator
\* rejects still counts against the client's limit, and a client over its
\* limit on a honeypot path gets 429 and not the deceiver's answer
C30_InnerBudget ==
    InnerCounted /\ HoneypotBudget

\* C30 witness: the client that asks for the honeypot path only has a full
\* window, every request in it rejected by the deceiver, and its next
\* request is answered 429
C30_Witness ==
    \E r \in Slots :
       /\ reqs[r].addr = 1
       /\ reqs[r].path = P_wp_admin
       /\ reqs[r].status = 429
       /\ Len(WindowOf(CLIENTS, 1)) = DEFAULT_LIMIT
       /\ hist[1].d.live = DEFAULT_LIMIT

\* ------------------------------------------------------ preflight bypass
\* C31 (state): an OPTIONS request is with the cors stage or answered by
\* it: 200, never 429, no stage inside cors in its trace, no decision of
\* the rate limiter
PreflightOutside ==
    \A r \in Slots :
       LET q == reqs[r]
       IN (q.pc # "idle" /\ q.method = "OPTIONS") =>
             /\ q.pc \in {"cors", "done"}
             /\ q.rl = ""
             /\ q.status \in {0, 200}
             /\ q.pc = "done" => q.status = 200 /\ q.by = "cors"
             /\ Range(q.trace) \subseteq {"cors"}

\* C31 (step): a step of the handler of an OPTIONS request leaves the
\* windows, the trackers and the entry guards as they are
PreflightStep ==
    \A r \in Slots :
       (/\ reqs'[r] # reqs[r]
        /\ \/ (reqs[r].method = "OPTIONS" /\ reqs[r].pc # "idle")
           \/ (reqs'[r].method = "OPTIONS" /\ reqs'[r].pc # "idle")) =>
          /\ CLIENTS' = CLIENTS
          /\ WARN_POOL' = WARN_POOL
          /\ entryLock' = entryLock

\* C31: an OPTIONS request neither takes nor changes a window or a tracker,
\* is never answered 429 and never reaches the deceiver, the version guard
\* or the token authenticator, whatever its path and the client's state
C31_PreflightBypass ==
    []PreflightOutside /\ [][PreflightStep]_vars

\* C31 witness: an OPTIONS request for a honeypot path is answered 200 by
\* cors while the client's window is full
C31_Witness ==
    \E r \in Slots :
       /\ reqs[r].method = "OPTIONS"
       /\ reqs[r].path = P_wp_admin
       /\ reqs[r].pc = "done"
       /\ reqs[r].status = 200
       /\ Len(WindowOf(CLIENTS, reqs[r].addr)) = DEFAULT_LIMIT

\* ------------------------------------------------- eviction specification
\* Requests of the clients overlap, time passes between the steps of their
\* handlers (a tick, or as long as the idle limit), and the cleanup task
\* runs beside them.
EvictRequests == SweepRequests
EvictArrivals == MaxArrivals - 2
EvictSteps == {1, IDLE_SECS * TicksPerSec}

InitEvict == InitWith({StrProduction}, {GoodFile}, {"hist"})

NextEvict ==
    \/ \E r \in Slots : Settled /\ Arrive(r, EvictRequests, EvictArrivals)
    \/ \E r \in Slots : CorsIn(r)
    \/ \E r \in Slots : RlBegin(r)
    \/ \E r \in Slots : Settled /\ RlEntry(r)
    \/ \E r \in Slots : Settled /\ RlCheck(r)
    \/ \E r \in Slots : Settled /\ RlReject(r)
    \/ \E r \in Slots : Settled /\ RlPush(r)
    \/ \E r \in Slots : Deceiver(r)
    \/ \E r \in Slots : Guard(r)
    \/ \E r \in Slots : Token(r)
    \/ \E r \in Slots : Router(r)
    \/ \E r \in Slots : CorsOut(r)
    \/ \E r \in Slots : Respond(r)
    \/ Settled /\ Advance(EvictSteps)
    \/ Settled /\ SweepWake
    \/ Settled /\ SweepClients
    \/ Settled /\ SweepWarn

SpecEvict == InitEvict /\ [][NextEvict]_vars

\* the pass over CLIENTS can run now, and the entries it removes
Retaining ==
    /\ sweepPc = "clients"
    /\ \A a \in Addrs : EntryFree(a)

Evicted == { a \in DOMAIN CLIENTS : ~ClientKept(CLIENTS[a], clock) }

\* every timestamp of the window is older than the period of every rule
AllStale(timestamps, at) ==
    \A i \in 1..Len(timestamps) : at - timestamps[i] >= MaxPeriod

\* C32: whenever the sweep removes the entry of a client, every timestamp
\* in the entry is older than the period of every rule, so that the prune
\* of the client's next request would have removed them all: the eviction
\* changes no later decision, under any interleaving of passes and requests
C32_SweepTransparent ==
    Retaining => \A a \in Evicted : AllStale(CLIENTS[a], clock)

\* the same for the windows that are in order: the defect is that of the
\* window order
OrderedTransparent ==
    Retaining =>
       \A a \in Evicted :
          NonDecreasing(CLIENTS[a]) => AllStale(CLIENTS[a], clock)

\* ------------------------------------------------- lock order specification
\* The rejection branch of the rate limiter step by step: the tracker guard
\* of WARN_POOL is taken while the entry guard of CLIENTS is held, and both
\* passes of the cleanup task hold the lock of the map they visit.

\* the guard of WARN_POOL.entry(addr) / WARN_POOL.remove(&addr): the entry is
\* not locked by another task
WarnFree(a) ==
    warnLock[a] = 0

\* a tracker guard that is never released
DropTrackerNever(lock, a) ==
    lock

\* drop(tracker), or the end of the block of the tracker
DropTracker(lock, a) ==
    [lock EXCEPT ![a] = 0]

\* rate_limiting::handler, lines 87-92: WARN_POOL.entry(addr).or_insert_with
\* and the hit counted through the guard
RjTrack(r) ==
    LET q == reqs[r]
        tracker == IF KeyOf(q.addr) \in DOMAIN WARN_POOL THEN WARN_POOL[KeyOf(q.addr)]
                   ELSE [first_seen |-> clock, hits |-> <<>>]
        hits == BumpHits(tracker.hits, q.path)
    IN /\ q.pc = "rl_reject"
       /\ WarnFree(KeyOf(q.addr))
       /\ warnLock' = [warnLock EXCEPT ![KeyOf(q.addr)] = r]
       /\ WARN_POOL' = With(WARN_POOL, KeyOf(q.addr), [tracker EXCEPT !.hits = hits])
       /\ reqs' = [reqs EXCEPT ![r].pc = "rj_held"]
       /\ UNCHANGED <<clock, stage, canopy_domain, setup, passwd, CLIENTS,
                      entryLock, monitor, iostat, sweepPc, sweepWake,
                      advances, arrivals, observe, hist, tally, answered>>

\* rate_limiting::handler, lines 94-109: the total, the warning lines, and
\* the tracker guard released
RjDrop(r) ==
    LET q == reqs[r]
        hits == WARN_POOL[KeyOf(q.addr)].hits
        warn == WarnReached(TotalHits(hits))
    IN /\ q.pc = "rj_held"
       /\ warnLock' = DropTracker(warnLock, KeyOf(q.addr))
       /\ reqs' = [reqs EXCEPT ![r] =
                     [@ EXCEPT !.pc = IF warn THEN "rj_remove" ELSE "rj_return",
                               !.logs = @ \o RejectLogs(q.path, hits, warn)]]
       /\ tally' = IF "tally" \in observe
                   THEN [tally EXCEPT ![q.addr] =
                           [@ EXCEPT !.rejected = @ + 1,
                                     !.warned = IF warn THEN @ + 1 ELSE @]]
                   ELSE tally
       /\ UNCHANGED <<clock, stage, canopy_domain, setup, passwd, CLIENTS,
                      WARN_POOL, entryLock, monitor, iostat, sweepPc,
                      sweepWake, advances, arrivals, observe, hist, answered>>

\* rate_limiting::handler, line 108: WARN_POOL.remove(&addr), which takes
\* the lock of the entry for the time of the call
RjRemove(r) ==
    LET q == reqs[r]
    IN /\ q.pc = "rj_remove"
       /\ WarnFree(KeyOf(q.addr))
       /\ WARN_POOL' = Without(WARN_POOL, KeyOf(q.addr))
       /\ reqs' = [reqs EXCEPT ![r].pc = "rj_return"]
       /\ UNCHANGED <<clock, stage, canopy_domain, setup, passwd, CLIENTS,
                      entryLock, warnLock, monitor, iostat, sweepPc,
                      sweepWake, advances, arrivals, observe, hist, tally,
                      answered>>

\* rate_limiting::handler, line 112: 429; the entry guard of CLIENTS is
\* dropped on return
RjReturn(r) ==
    LET q == reqs[r]
    IN /\ q.pc = "rj_return"
       /\ entryLock' = [entryLock EXCEPT ![KeyOf(q.addr)] = IF @ = r THEN 0 ELSE @]
       /\ reqs' = [reqs EXCEPT ![r] =
                     [@ EXCEPT !.pc = "cors_out", !.status = 429,
                               !.msg = "Rate limit exceeded.",
                               !.body = ErrorBody("Rate limit exceeded.",
                                                  UnixNow),
                               !.by = "rate"]]
       /\ UNCHANGED <<clock, stage, canopy_domain, setup, passwd, CLIENTS,
                      WARN_POOL, warnLock, monitor, iostat, sweepPc,
                      sweepWake, advances, arrivals, observe, hist, tally,
                      answered>>

WarnHolds == \E a \in Addrs : warnLock[a] = SweepTask

\* the cleanup task: warn_pool.retain(..) gets the write lock of the shard
SweepWarnHold ==
    /\ sweepPc = "warn"
    /\ \A a \in Addrs : WarnFree(a)
    /\ warnLock' = [a \in Addrs |-> SweepTask]
    /\ UNCHANGED <<clock, stage, canopy_domain, setup, passwd, CLIENTS,
                   WARN_POOL, entryLock, monitor, iostat, reqs, sweepPc,
                   sweepWake, advances, arrivals, observe, hist, tally,
                   answered>>

\* the cleanup task: warn_pool.retain(..) has visited the trackers of the
\* shard and releases its lock, then back to sleep
SweepWarnRelease ==
    LET kept == { a \in DOMAIN WARN_POOL : TrackerKept(WARN_POOL[a], clock) }
    IN /\ sweepPc = "warn"
       /\ WarnHolds
       /\ WARN_POOL' = [a \in kept |-> WARN_POOL[a]]
       /\ warnLock' = [a \in Addrs |-> 0]
       /\ sweepPc' = "sleep"
       /\ sweepWake' = clock + SWEEP_SECS * TicksPerSec
       /\ UNCHANGED <<clock, stage, canopy_domain, setup, passwd, CLIENTS,
                      entryLock, monitor, iostat, reqs, advances, arrivals,
                      observe, hist, tally, answered>>

LockRequests == SweepRequests
LockArrivals == MaxArrivals
LockSteps == {SWEEP_SECS * TicksPerSec}

InitLock == InitWith({StrProduction}, {GoodFile}, {})

\* the steps of the handler task of one slot; the steps that touch the maps
\* wait for the local steps of the other handlers (see scheduling)
LockStep(r) ==
    \/ CorsIn(r)
    \/ RlBegin(r)
    \/ Settled /\ RlEntry(r)
    \/ Settled /\ RlCheck(r)
    \/ Settled /\ RjTrack(r)
    \/ Settled /\ RjDrop(r)
    \/ Settled /\ RjRemove(r)
    \/ Settled /\ RjReturn(r)
    \/ Settled /\ RlPush(r)
    \/ Deceiver(r)
    \/ Guard(r)
    \/ Token(r)
    \/ Router(r)
    \/ CorsOut(r)
    \/ Respond(r)

\* the steps of the cleanup task
LockSweep ==
    \/ Settled /\ SweepWake
    \/ Settled /\ SweepHold
    \/ Settled /\ SweepRelease
    \/ Settled /\ SweepWarnHold
    \/ Settled /\ SweepWarnRelease

NextLock ==
    \/ \E r \in Slots : Settled /\ Arrive(r, LockRequests, LockArrivals)
    \/ \E r \in Slots : LockStep(r)
    \/ LockSweep
    \/ Spell(LockSteps)

\* the runtime schedules every task that can run
SpecLock ==
    /\ InitLock
    /\ [][NextLock]_vars
    /\ \A r \in Slots : WF_vars(LockStep(r))
    /\ WF_vars(LockSweep)

\* a handler is in flight, or a pass of the cleanup task is under way
Busy ==
    \/ \E r \in Slots : reqs[r].pc # "idle"
    \/ sweepPc # "sleep"

\* no state is reached in which tasks are under way and none can take a step
NoDeadlock ==
    Busy => ENABLED ((\E r \in Slots : LockStep(r)) \/ LockSweep)

\* the places of the handler between CLIENTS.entry(addr) and the drop of
\* its guard
CriticalPcs == {"rl_check", "rl_reject", "rj_held", "rj_remove",
                "rj_return", "rl_push"}

\* the guards a handler holds are those of its own client, the entry guard
\* only inside the critical section and the tracker guard only at the
\* tracker: none is held when the next stage is called
GuardsScoped ==
    \A r \in Slots : \A a \in Addrs :
       /\ entryLock[a] = r =>
             reqs[r].addr = a /\ reqs[r].pc \in CriticalPcs
       /\ warnLock[a] = r =>
             reqs[r].addr = a /\ reqs[r].pc = "rj_held" /\ entryLock[a] = r

\* the handler is at a call that takes a lock
Wants(r) ==
    reqs[r].pc \in {"rl_entry", "rl_reject", "rj_remove"}

SamePeer(a, b) ==
    a # b /\ IpOf(a) = IpOf(b)

\* C34 (frame): a step that handles a request of one connection leaves the
\* window and the tracker of every other port of the same IP as they are
PortFrameStep ==
    \A r \in Slots :
       reqs'[r] # reqs[r] =>
          \A b \in Addrs :
             SamePeer(ClientOf(r), b) =>
                /\ EntryOf(CLIENTS', b) = EntryOf(CLIENTS, b)
                /\ EntryOf(WARN_POOL', b) = EntryOf(WARN_POOL, b)

\* C34 (decision): a request is answered 429 only when the admitted
\* requests of its own socket address fill the window, and the hits of a
\* tracker are the rejections of its own socket address since its last
\* warning
PortDecision ==
    /\ \A r \in Slots :
          LET q == reqs[r]
              rule == RuleFor(q.path)
              own == SelectSeq(hist[q.addr].adm,
                        LAMBDA t : DurationSince(q.now, t) < rule.period)
          IN q.pc \in {"rl_reject", "cors_out", "done"} /\ q.rl = "reject" =>
                Len(own) >= rule.limit
    /\ \A a \in Addrs :
          LET total == IF a \in DOMAIN WARN_POOL
                       THEN TotalHits(WARN_POOL[a].hits) ELSE 0
          IN total = tally[a].rejected - WARN_TOTAL * tally[a].warned

ReachedRouter(q) ==
    q.pc = "router" \/ "router" \in Range(q.trace)

\* C35: in a production stage a request for a path other than `/` reaches
\* the router (whose 404 or route handler's 200 tells whether the route
\* exists) only if it carries the bearer token of the current or of the
\* preceding epoch, and a request without a token for an unknown route of a
\* valid version, let through by the rate limiter, is answered 403
C35_RouteHidden ==
    \A r \in Slots :
       LET q == reqs[r]
           e == EpochOf(UnixNow)
       IN /\ (NotBypassed(q) /\ ReachedRouter(q)) =>
                q.auth \in {Bearer(BearerToken(e)), Bearer(BearerToken(e - 1))}
          /\ (NotBypassed(q) /\ q.method # "OPTIONS" /\ q.path = P_v1_nope
                /\ q.auth = NoAuth /\ q.rl = "admit" /\ q.pc = "done") =>
                q.status = 403

\* C35 (as the code has it): such a request reaches the router only with a
\* Bearer header that presents one 6-digit code of the two epochs, and
\* without an Authorization header it is answered 403 by the token stage
CodeHidden ==
    \A r \in Slots :
       LET q == reqs[r]
           e == EpochOf(UnixNow)
       IN /\ (NotBypassed(q) /\ ReachedRouter(q)) =>
                CarriesBearer(q) /\ Presented(q) \in ValidTokens(e)
          /\ (NotBypassed(q) /\ q.method # "OPTIONS" /\ q.path = P_v1_nope
                /\ q.auth = NoAuth /\ q.rl = "admit" /\ q.pc = "done") =>
                q.status = 403 /\ q.by = "token"

\* --------------------------------------------------- CPU monitor specification
TASK_IDLE_SECS == 60
UPDATE_SECS == 1

\* update tasks spawned and calls of get_data made in one behaviour
MaxTasks == 3
MonitorCalls == 4
MonitorSteps == {UPDATE_SECS * TicksPerSec, (TASK_IDLE_SECS + 1) * TicksPerSec}

\* everything but the monitor
NotMonitor ==
    <<clock, stage, canopy_domain, setup, passwd, CLIENTS, WARN_POOL,
      entryLock, warnLock, iostat, reqs, sweepPc, sweepWake, advances,
      arrivals, observe, hist, tally, answered>>

\* Utc::now().signed_duration_since(last_call) > Duration::seconds(60)
TaskIdle(last_call, now) ==
    IF last_call = DefaultInstant
    THEN BootUnix + now \div TicksPerSec > TASK_IDLE_SECS
    ELSE now - last_call > TASK_IDLE_SECS * TicksPerSec

\* JoinHandle::is_finished
IsFinished(task) ==
    task.pc = "finished"

\* the update tasks that have not ended
AliveTasks ==
    { i \in 1..Len(monitor.tasks) : ~IsFinished(monitor.tasks[i]) }

\* get_cpu_handler calls monitor.get_data()
GetData(c) ==
    /\ monitor.calls[c].pc = "idle"
    /\ monitor.called < MonitorCalls
    /\ monitor' = [monitor EXCEPT !.calls[c].pc = "handle",
                                  !.calls[c].spawned = 0,
                                  !.called = @ + 1]
    /\ UNCHANGED NotMonitor

\* get_data, lines 271-282: under the lock of task_handle, spawn an update
\* task if there is none or the last one has finished
GetDataSpawn(c) ==
    LET h == monitor.task_handle
        should_spawn == IF h = 0 THEN TRUE ELSE IsFinished(monitor.tasks[h])
        task == [pc |-> "read", last_call |-> DefaultInstant, wake |-> 0,
                 stamped |-> FALSE, pre |-> FALSE]
    IN /\ monitor.calls[c].pc = "handle"
       /\ should_spawn => Len(monitor.tasks) < MaxTasks
       /\ monitor' =
             IF should_spawn
             THEN [monitor EXCEPT !.tasks = Append(@, task),
                                  !.task_handle = Len(monitor.tasks) + 1,
                                  !.calls[c].spawned = Len(monitor.tasks) + 1,
                                  !.calls[c].pc = "stamp"]
             ELSE [monitor EXCEPT !.calls[c].pc = "stamp"]
       /\ UNCHANGED NotMonitor

\* get_data, lines 284-286: last_api_call = Utc::now(), and return
GetDataStamp(c) ==
    LET i == monitor.calls[c].spawned
    IN /\ monitor.calls[c].pc = "stamp"
       /\ monitor' = [monitor EXCEPT
                        !.last_api_call = clock,
                        !.tasks = IF i = 0 THEN @
                                  ELSE [@ EXCEPT ![i].stamped = TRUE],
                        !.calls[c].pc = "idle",
                        !.returned = @ + 1]
       /\ UNCHANGED NotMonitor

\* spawn_update_task, lines 246-249: read last_api_call under the lock
UpdateRead(i) ==
    /\ i \in 1..Len(monitor.tasks)
    /\ monitor.tasks[i].pc = "read"
    /\ monitor' = [monitor EXCEPT
                     !.tasks[i].pc = "test",
                     !.tasks[i].last_call = monitor.last_api_call,
                     !.tasks[i].pre = ~monitor.tasks[i].stamped]
    /\ UNCHANGED NotMonitor

\* spawn_update_task, lines 251-254: break after a minute without a call
UpdateTest(i) ==
    /\ i \in 1..Len(monitor.tasks)
    /\ monitor.tasks[i].pc = "test"
    /\ monitor' = [monitor EXCEPT
                     !.tasks[i].pc =
                        IF TaskIdle(monitor.tasks[i].last_call, clock)
                        THEN "finished" ELSE "fetch"]
    /\ UNCHANGED NotMonitor

\* spawn_update_task, lines 257-264: fetch the dynamic data, store it, and
\* sleep a second
UpdateFetch(i) ==
    /\ i \in 1..Len(monitor.tasks)
    /\ monitor.tasks[i].pc = "fetch"
    /\ monitor' = [monitor EXCEPT
                     !.tasks[i].pc = "sleep",
                     !.tasks[i].wake = clock + UPDATE_SECS * TicksPerSec]
    /\ UNCHANGED NotMonitor

\* spawn_update_task, line 264: the sleep returns
UpdateWake(i) ==
    /\ i \in 1..Len(monitor.tasks)
    /\ monitor.tasks[i].pc = "sleep"
    /\ clock >= monitor.tasks[i].wake
    /\ monitor' = [monitor EXCEPT !.tasks[i].pc = "read"]
    /\ UNCHANGED NotMonitor

InitMonitor == InitWith({StrProduction}, {GoodFile}, {})

NextMonitor ==
    \/ \E c \in Slots : GetData(c)
    \/ \E c \in Slots : GetDataSpawn(c)
    \/ \E c \in Slots : GetDataStamp(c)
    \/ \E i \in 1..MaxTasks : UpdateRead(i)
    \/ \E i \in 1..MaxTasks : UpdateTest(i)
    \/ \E i \in 1..MaxTasks : UpdateFetch(i)
    \/ \E i \in 1..MaxTasks : UpdateWake(i)
    \/ Advance(MonitorSteps)

SpecMonitor == InitMonitor /\ [][NextMonitor]_vars

\* at most one update task is alive
OneUpdateTask ==
    Cardinality(AliveTasks) <= 1

\* a call of get_data has returned and fewer than 60 s have passed since
\* the last one did
RecentlyCalled ==
    /\ monitor.returned > 0
    /\ clock - monitor.last_api_call <= TASK_IDLE_SECS * TicksPerSec

\* C36: at most one update task is alive; once a call of get_data has
\* returned an update task is alive until 60 s pass without a further
\* call; and no task ends on a value of last_api_call it read before the
\* call that spawned it had written its own
C36_RefreshTask ==
    /\ OneUpdateTask
    /\ RecentlyCalled => AliveTasks # {}
    /\ \A i \in 1..Len(monitor.tasks) :
          IsFinished(monitor.tasks[i]) => ~monitor.tasks[i].pre

\* ------------------------------------------------ iostat cache specification
CACHE_IDLE_SECS == 60
FETCH_SECS == 2

\* calls of fetch_iostat made in one behaviour
IostatCalls == 4
IostatSteps == {FETCH_SECS * TicksPerSec, (CACHE_IDLE_SECS + 1) * TicksPerSec}

\* everything but the iostat cache
NotIostat ==
    <<clock, stage, canopy_domain, setup, passwd, CLIENTS, WARN_POOL,
      entryLock, warnLock, monitor, reqs, sweepPc, sweepWake, advances,
      arrivals, observe, hist, tally, answered>>

\* a start that does not look at the flag
ShouldFetchAlways(fetching) ==
    TRUE

\* if !*fetching
ShouldFetch(fetching) ==
    ~fetching

\* last.elapsed() > Duration::from_secs(60)
CacheIdle(last, now) ==
    now - last > CACHE_IDLE_SECS * TicksPerSec

\* the fetch tasks that have not ended
AliveFetches ==
    { i \in 1..Len(iostat.tasks) : iostat.tasks[i].pc # "finished" }

\* fetch_iostat, lines 40-44: LAST_ACCESS = Instant::now()
FetchIostat(c) ==
    /\ iostat.calls[c] = "idle"
    /\ iostat.called < IostatCalls
    /\ iostat' = [iostat EXCEPT !.LAST_ACCESS = clock,
                                !.calls[c] = "cache",
                                !.called = @ + 1]
    /\ UNCHANGED NotIostat

\* fetch_iostat, lines 46-52: return the cache if there is one
FetchCached(c) ==
    /\ iostat.calls[c] = "cache"
    /\ iostat' = [iostat EXCEPT
                    !.calls[c] = IF iostat.CACHE = "Some" THEN "idle"
                                 ELSE "lock"]
    /\ UNCHANGED NotIostat

\* fetch_iostat, line 55: FETCHING.lock().await
FetchLock(c) ==
    /\ iostat.calls[c] = "lock"
    /\ iostat.fetchLock = 0
    /\ iostat' = [iostat EXCEPT !.fetchLock = c, !.calls[c] = "start"]
    /\ UNCHANGED NotIostat

\* fetch_iostat, lines 56-103: set the flag and spawn the task unless one
\* is fetching, and return None; the guard is dropped on return
FetchStart(c) ==
    LET start == ShouldFetch(iostat.FETCHING)
        task == [pc |-> "tick", wake |-> clock]
    IN /\ iostat.calls[c] = "start"
       /\ iostat' = [iostat EXCEPT
                       !.FETCHING = IF start THEN TRUE ELSE @,
                       !.tasks = IF start THEN Append(@, task) ELSE @,
                       !.fetchLock = 0,
                       !.calls[c] = "idle"]
       /\ UNCHANGED NotIostat

\* the task, line 65: ticker.tick().await, at once the first time and every
\* two seconds after that
TaskTick(i) ==
    /\ i \in 1..Len(iostat.tasks)
    /\ iostat.tasks[i].pc = "tick"
    /\ clock >= iostat.tasks[i].wake
    /\ iostat' = [iostat EXCEPT
                    !.tasks[i].pc = "check",
                    !.tasks[i].wake = @ + FETCH_SECS * TicksPerSec]
    /\ UNCHANGED NotIostat

\* the task, lines 67-73: after 60 s without a call clear the cache and
\* leave the loop
TaskCheck(i) ==
    LET idle == CacheIdle(iostat.LAST_ACCESS, clock)
    IN /\ i \in 1..Len(iostat.tasks)
       /\ iostat.tasks[i].pc = "check"
       /\ iostat' = [iostat EXCEPT
                       !.CACHE = IF idle THEN "None" ELSE @,
                       !.tasks[i].pc = IF idle THEN "release" ELSE "run"]
       /\ UNCHANGED NotIostat

\* the task, lines 75-94: run iostat; the cache is set when the command
\* succeeds and its output parses
TaskStore(i) ==
    /\ i \in 1..Len(iostat.tasks)
    /\ iostat.tasks[i].pc = "run"
    /\ \E parsed \in BOOLEAN :
          iostat' = [iostat EXCEPT
                       !.CACHE = IF parsed THEN "Some" ELSE @,
                       !.tasks[i].pc = "tick"]
    /\ UNCHANGED NotIostat

\* the task, line 98: *FETCHING.lock().await = false, and the task ends
TaskRelease(i) ==
    /\ i \in 1..Len(iostat.tasks)
    /\ iostat.tasks[i].pc = "release"
    /\ iostat.fetchLock = 0
    /\ iostat' = [iostat EXCEPT !.FETCHING = FALSE,
                                !.tasks[i].pc = "finished"]
    /\ UNCHANGED NotIostat

InitIostat == InitWith({StrProduction}, {GoodFile}, {})

\* the steps of one call of fetch_iostat
CallStep(c) ==
    \/ FetchCached(c)
    \/ FetchLock(c)
    \/ FetchStart(c)

\* the steps of one fetch task
TaskStep(i) ==
    \/ TaskTick(i)
    \/ TaskCheck(i)
    \/ TaskStore(i)
    \/ TaskRelease(i)

NextIostat ==
    \/ \E c \in Slots : FetchIostat(c)
    \/ \E c \in Slots : CallStep(c)
    \/ \E i \in 1..IostatCalls : TaskStep(i)
    \/ Advance(IostatSteps)

\* the runtime schedules every task that can run
SpecIostat ==
    /\ InitIostat
    /\ [][NextIostat]_vars
    /\ \A c \in Slots : WF_vars(CallStep(c))
    /\ \A i \in 1..IostatCalls : WF_vars(TaskStep(i))

\* at most one fetch task is alive
OneFetchTask ==
    Cardinality(AliveFetches) <= 1

\* the flag is set whenever a fetch task is alive
FetchingWhileAlive ==
    AliveFetches # {} => iostat.FETCHING

\* the cache holds data only while a fetch task is alive
CacheWhileAlive ==
    iostat.CACHE = "Some" => AliveFetches # {}

\* a call has arrived after the last fetch task ended
CallAfterExit ==
    /\ iostat.tasks # <<>>
    /\ AliveFetches = {}
    /\ \E c \in Slots : iostat.calls[c] = "cache"

\* C37: under any interleaving of calls of fetch_iostat and the fetch task,
\* at most one fetch task is alive, FETCHING is true whenever one is, the
\* cache holds data only while one is alive (the task clears it before it
\* ends), and a call that arrives after the task has ended leads to a new
\* task
C37_CacheWorker ==
    /\ []OneFetchTask
    /\ []FetchingWhileAlive
    /\ []CacheWhileAlive
    /\ CallAfterExit ~> AliveFetches # {}

\* C37 witness: a second fetch task is alive after the first one, idle for
\* more than 60 s, cleared the cache and ended, and the cache is filled
\* again
C37_Witness ==
    /\ Len(iostat.tasks) >= 2
    /\ iostat.tasks[1].pc = "finished"
    /\ AliveFetches = {Len(iostat.tasks)}
    /\ iostat.FETCHING
    /\ iostat.CACHE = "Some"
    /\ \E c \in Slots : iostat.calls[c] = "lock"
====
